---------------------------- MODULE Spec2Model ----------------------------
(***************************************************************************)
(* Model of the data-cleaning scripts of the repository: the movement      *)
(* resolver (data/process_game_data.py), the comprehensive regeneration    *)
(* (data/fix_all_movements.py) and the two validators                      *)
(* (data/validate_movement_data.py, data/VALIDATION/validate_data.py).     *)
(*                                                                         *)
(* A CSV cell is a text: a sequence of one-character strings, so that      *)
(* strip(), lower(), the regular expressions and the substring tests of    *)
(* the scripts are computed character by character.  A file is a record    *)
(* [exists, rows]; rows are the data rows after the header line.           *)
(***************************************************************************)
EXTENDS Integers, Sequences, FiniteSets, TLC

VARIABLES
    fs,            \* the file system: file name -> [exists, rows]
    script,        \* the script this run executes
    pc,            \* position of the running script
    exit_status,   \* process exit status, meaningful once pc = "exited"
    exception,     \* name of the uncaught exception, "" when none
    nread,         \* rows (or dict items) the running loop has taken so far
    row,           \* the loop variable: the row being processed
    movements,     \* the movement rows collected (validator: the loaded dict)
    dice_spaces,   \* process_game_data: keys with dice movement
    dice_data,     \* fix_all_movements: key -> outcome_type -> rolls
    outcomes,      \* fix_all_movements: the dice outcome rows collected
    dice_outcomes, \* validate_movement_data: the loaded DICE_OUTCOMES dict
    errors,        \* validate_movement_data: the error list
    warnings,      \* validate_movement_data: the warning list
    results,       \* validate_data: the list of check results
    candidate,     \* is_valid_space_name: the text it is called with
    accepted,      \* is_valid_space_name: what it returned, FALSE before the call
    effects,       \* process_remaining_files: the effect rows collected
    converted_cards, \* convert_cards(_expanded): the card records collected
    row_list,      \* migrate_csv, fix-l-cards: the rows read, patched in place
    migrated_count, \* migrate_csv: rows rewritten in this run
    runs,          \* migrate_csv: invocations on the same file so far
    fixes_applied, \* fix-l-cards: the four counters
    report,        \* compare-migration, fix-l-cards: what the run printed
    code2026_effects, \* compare-migration: the old snapshot's rows by key
    code2027_effects  \* compare-migration: the new snapshot's rows by key

procVars == <<pc, exit_status, exception>>
loopVars == <<nread, row>>
pgdLocals == <<dice_spaces>>
fixLocals == <<dice_data, outcomes>>
vmdLocals == <<dice_outcomes, errors, warnings>>
vdLocals == <<results>>
nameLocals == <<candidate, accepted>>
prfLocals == <<effects>>
cceLocals == <<converted_cards>>
patchLocals == <<row_list, migrated_count, runs, fixes_applied, report>>
cmpLocals == <<code2026_effects, code2027_effects>>
otherLocals == <<nameLocals, prfLocals, cceLocals, patchLocals, cmpLocals>>

vars == <<fs, script, procVars, loopVars, movements, pgdLocals, fixLocals,
          vmdLocals, vdLocals, otherLocals>>

\* What each script leaves alone, whatever it does
NotOfPGD == <<script, fixLocals, vmdLocals, vdLocals, otherLocals>>
NotOfFIX == <<script, pgdLocals, vmdLocals, vdLocals, otherLocals>>
NotOfVMD == <<script, fs, pgdLocals, fixLocals, vdLocals, otherLocals>>
NotOfVD == <<script, fs, loopVars, movements, pgdLocals, fixLocals, vmdLocals,
             otherLocals>>
pathLocals == <<movements, pgdLocals, fixLocals, vmdLocals, vdLocals>>
NotOfNAME == <<script, fs, loopVars, pathLocals, prfLocals, cceLocals, patchLocals,
               cmpLocals>>
NotOfPRF == <<script, pathLocals, nameLocals, cceLocals, patchLocals, cmpLocals>>
NotOfCCE == <<script, pathLocals, nameLocals, prfLocals, patchLocals, cmpLocals>>
NotOfPatch == <<script, pathLocals, nameLocals, prfLocals, cceLocals, cmpLocals>>
NotOfCompare == <<script, fs, row, pathLocals, nameLocals, prfLocals, cceLocals,
                  row_list, migrated_count, runs, fixes_applied>>

-----------------------------------------------------------------------------
(***************************************************************************)
(* Characters and texts                                                    *)
(***************************************************************************)

UpperSeq == <<"A","B","C","D","E","F","G","H","I","J","K","L","M",
              "N","O","P","Q","R","S","T","U","V","W","X","Y","Z">>
LowerSeq == <<"a","b","c","d","e","f","g","h","i","j","k","l","m",
              "n","o","p","q","r","s","t","u","v","w","x","y","z">>
DigitSeq == <<"0","1","2","3","4","5","6","7","8","9">>

\* The characters of the model in code point order (the order of sorted()).
Ascii == <<"\t", " ", "%", "-">> \o DigitSeq \o <<"?">> \o UpperSeq \o LowerSeq

Range(s) == { s[i] : i \in DOMAIN s }

UpperChars == Range(UpperSeq)
LowerChars == Range(LowerSeq)
DigitChars == Range(DigitSeq)
Whitespace == {" ", "\t"}

Ord(c) == CHOOSE i \in DOMAIN Ascii : Ascii[i] = c

\* str.lower() and str.upper() on one character
LowerChar(c) ==
    IF c \in UpperChars
    THEN LowerSeq[CHOOSE i \in DOMAIN UpperSeq : UpperSeq[i] = c]
    ELSE c
UpperChar(c) ==
    IF c \in LowerChars
    THEN UpperSeq[CHOOSE i \in DOMAIN LowerSeq : LowerSeq[i] = c]
    ELSE c

Lower(s) == [i \in DOMAIN s |-> LowerChar(s[i])]
Upper(s) == [i \in DOMAIN s |-> UpperChar(s[i])]

\* s[a..b], empty when a > b
Slice(s, a, b) == IF a > b THEN <<>> ELSE SubSeq(s, a, b)

RECURSIVE LStrip(_)
LStrip(s) ==
    IF s = <<>> THEN <<>>
    ELSE IF Head(s) \in Whitespace THEN LStrip(Tail(s)) ELSE s

RECURSIVE RStrip(_)
RStrip(s) ==
    IF s = <<>> THEN <<>>
    ELSE IF s[Len(s)] \in Whitespace THEN RStrip(Slice(s, 1, Len(s) - 1)) ELSE s

\* str.strip()
Strip(s) == RStrip(LStrip(s))

\* s.startswith(p) from position i (1-based)
StartsWithAt(s, p, i) ==
    /\ i + Len(p) - 1 <= Len(s)
    /\ \A k \in 1..Len(p) : s[i + k - 1] = p[k]

StartsWith(s, p) == StartsWithAt(s, p, 1)

\* p in s
Contains(s, p) == \E i \in 1..(Len(s) + 1) : StartsWithAt(s, p, i)

\* ' '.join(cells)
RECURSIVE JoinSpace(_)
JoinSpace(cells) ==
    IF cells = <<>> THEN <<>>
    ELSE IF Len(cells) = 1 THEN cells[1]
    ELSE cells[1] \o <<" ">> \o JoinSpace(Tail(cells))

\* Order of Python's string comparison: by code point, a proper prefix first.
RECURSIVE TextLess(_, _)
TextLess(a, b) ==
    IF b = <<>> THEN FALSE
    ELSE IF a = <<>> THEN TRUE
    ELSE IF Head(a) = Head(b) THEN TextLess(Tail(a), Tail(b))
    ELSE Ord(Head(a)) < Ord(Head(b))

\* sorted(list(set)) of a finite set of texts
RECURSIVE SortedTexts(_)
SortedTexts(S) ==
    IF S = {} THEN <<>>
    ELSE LET m == CHOOSE x \in S : \A y \in S \ {x} : TextLess(x, y)
         IN  <<m>> \o SortedTexts(S \ {m})

-----------------------------------------------------------------------------
(***************************************************************************)
(* Literals of the scripts                                                 *)
(***************************************************************************)

Empty == <<>>
\* csv.DictReader gives None (restval) for a cell a short row does not have
None == <<"<None>">>

START_QUICK_PLAY_GUIDE == <<"S","T","A","R","T","-","Q","U","I","C","K","-","P","L","A","Y","-","G","U","I","D","E">>
LOGIC == <<"L","O","G","I","C">>
NextStep == <<"N","e","x","t"," ","S","t","e","p">>
TimeOutcomes == <<"T","i","m","e"," ","o","u","t","c","o","m","e","s">>
START == <<"S","T","A","R","T">>
PM_DECISION_CHECK == <<"P","M","-","D","E","C","I","S","I","O","N","-","C","H","E","C","K">>
LEND_SCOPE_CHECK == <<"L","E","N","D","-","S","C","O","P","E","-","C","H","E","C","K">>
Always == <<"a","l","w","a","y","s">>
OWNER_FUND_INITIATION == <<"O","W","N","E","R","-","F","U","N","D","-","I","N","I","T","I","A","T","I","O","N">>
Main == <<"M","a","i","n">>
SETUP == <<"S","E","T","U","P">>
YesWord == <<"Y","e","s">>
NoWord == <<"N","o">>
FINISH == <<"F","I","N","I","S","H">>
YES == <<"Y","E","S">>
NO == <<"N","O">>
First == <<"F","i","r","s","t">>
Subsequent == <<"S","u","b","s","e","q","u","e","n","t">>
OptionFromFirstVisit == <<"o","p","t","i","o","n"," ","f","r","o","m"," ","f","i","r","s","t"," ","v","i","s","i","t">>
OutcomeWord == <<"o","u","t","c","o","m","e">>
DiceWord == <<"d","i","c","e">>
TimeWords == {<<"d","a","y">>, <<"w","e","e","k">>, <<"m","o","n","t","h">>}
SpaceWord == <<"s","p","a","c","e">>

\* len(name) < 5 is rejected
MinNameLen == 5
\* re.findall(r'[A-Z][A-Z0-9\-]{2,}'): one letter and at least two more
MinMatchLen == 3
\* if len(row) >= 9: a dice row needs the three key cells and six faces
MinDiceRowLen == 9
\* destination_1 .. destination_5
NumDestinations == 5

-----------------------------------------------------------------------------
(***************************************************************************)
(* process_game_data.py: the name classifier                               *)
(***************************************************************************)

IdChars == UpperChars \cup DigitChars \cup {"-"}

\* re.match(r'^[A-Z][A-Z0-9\-]+$', name)
MatchesNamePattern(name) ==
    /\ Len(name) >= 2
    /\ name[1] \in UpperChars
    /\ \A i \in 2..Len(name) : name[i] \in IdChars

\* re.match(r'^Space\s+\d+$', name, re.IGNORECASE)
MatchesSpaceN(name) ==
    /\ StartsWith(Lower(name), SpaceWord)
    /\ \E k \in (Len(SpaceWord) + 1)..(Len(name) - 1) :
          /\ \A i \in (Len(SpaceWord) + 1)..k : name[i] \in Whitespace
          /\ \A i \in (k + 1)..Len(name) : name[i] \in DigitChars

\* re.search(r'\d+\s*(day|week|month)', name, re.IGNORECASE)
HasTimeIndicator(name) ==
    \E i \in 1..Len(name) :
        /\ name[i] \in DigitChars
        /\ \E j \in (i + 1)..Len(name) :
              /\ \A k \in (i + 1)..(j - 1) : name[k] \in Whitespace
              /\ \E w \in TimeWords : StartsWithAt(Lower(name), w, j)

\* is_valid_space_name without the minimum length check
is_valid_space_name_NoMinLength(raw) ==
    LET name == Strip(raw) IN
    IF raw = <<>> \/ name = <<>> THEN FALSE
    ELSE IF ~MatchesNamePattern(name) THEN FALSE
    ELSE IF "?" \in Range(name) THEN FALSE
    ELSE IF MatchesSpaceN(name) THEN FALSE
    ELSE IF Upper(name) \in {YES, NO} THEN FALSE
    ELSE IF HasTimeIndicator(name) THEN FALSE
    ELSE IF "-" \notin Range(name) /\ name \notin {START, FINISH} THEN FALSE
    ELSE TRUE

\* is_valid_space_name without the hyphen rule
is_valid_space_name_NoHyphenRule(raw) ==
    LET name == Strip(raw) IN
    IF raw = <<>> \/ name = <<>> THEN FALSE
    ELSE IF ~MatchesNamePattern(name) THEN FALSE
    ELSE IF "?" \in Range(name) THEN FALSE
    ELSE IF MatchesSpaceN(name) THEN FALSE
    ELSE IF Upper(name) \in {YES, NO} THEN FALSE
    ELSE IF HasTimeIndicator(name) THEN FALSE
    ELSE IF Len(name) < MinNameLen THEN FALSE
    ELSE TRUE

is_valid_space_name(raw) ==
    LET name == Strip(raw) IN
    IF raw = <<>> \/ name = <<>> THEN FALSE
    ELSE IF ~MatchesNamePattern(name) THEN FALSE
    ELSE IF "?" \in Range(name) THEN FALSE
    ELSE IF MatchesSpaceN(name) THEN FALSE
    ELSE IF Upper(name) \in {YES, NO} THEN FALSE
    ELSE IF HasTimeIndicator(name) THEN FALSE
    ELSE IF "-" \notin Range(name) /\ name \notin {START, FINISH} THEN FALSE
    ELSE IF Len(name) < MinNameLen THEN FALSE
    ELSE TRUE

-----------------------------------------------------------------------------
(***************************************************************************)
(* Files                                                                   *)
(***************************************************************************)

\* bom: the file starts with a byte-order mark
AbsentFile == [exists |-> FALSE, bom |-> FALSE, rows |-> <<>>]
FileOf(rs) == [exists |-> TRUE, bom |-> FALSE, rows |-> rs]
WithBom(file) == [file EXCEPT !.bom = TRUE]

\* The first column name as csv.DictReader reads it from the header line:
\* open(..., encoding='utf-8') leaves the byte-order mark in front of it,
\* encoding='utf-8-sig' removes it
BOM == <<"<BOM>">>
FirstFieldName(file, encoding) ==
    IF file.bom /\ encoding = "utf-8" THEN BOM \o <<"s","p","a","c","e","_","n","a","m","e">> ELSE <<"s","p","a","c","e","_","n","a","m","e">>

\* row['space_name'] raises KeyError
SpaceNameKeyError(file, encoding) == FirstFieldName(file, encoding) # <<"s","p","a","c","e","_","n","a","m","e">>

SeqsUpTo(S, n) == UNION { [1..k -> S] : k \in 0..n }

\* A file that is absent, or holds at most n data rows drawn from pool
FilesOver(pool, n) == {AbsentFile} \cup { FileOf(rs) : rs \in SeqsUpTo(pool, n) }

\* ... with or without a byte-order mark
SourceFilesOver(pool, n) ==
    FilesOver(pool, n) \cup { WithBom(FileOf(rs)) : rs \in SeqsUpTo(pool, n) }

\* The loop variable before the loop
NoRow == [space_name |-> Empty, visit_type |-> Empty]

\* How often a script that rewrites a file in place is run on it
MaxRuns == 2

\* The data directory: the two source tables and the files derived from them
Files(spaces, dice, movement, dice_out) ==
    [Spaces |-> spaces, DiceRoll |-> dice,
     MOVEMENT |-> movement, DICE_OUTCOMES |-> dice_out,
     GAME_CONFIG |-> AbsentFile, SPACE_CONTENT |-> AbsentFile,
     SPACE_EFFECTS |-> AbsentFile, DICE_EFFECTS |-> AbsentFile,
     Cards |-> AbsentFile, CARDS_EXPANDED |-> AbsentFile,
     SPACE_EFFECTS_backup |-> AbsentFile, SPACE_EFFECTS_2026 |-> AbsentFile,
     cards_backup |-> AbsentFile, CARDS_FULL |-> AbsentFile]

\* A row of Spaces.csv as csv.DictReader yields it: the cells the scripts read
SpaceRow(name, visit, path, cells) ==
    [space_name |-> name, visit_type |-> visit, path |-> path,
     requires_dice_roll |-> Empty, rolls |-> <<"0">>,
     space_1 |-> cells[1], space_2 |-> cells[2], space_3 |-> cells[3],
     space_4 |-> cells[4], space_5 |-> cells[5]]

\* A row shorter than the header: every cell after visit_type is None
ShortSpaceRow(name, visit) ==
    [space_name |-> name, visit_type |-> visit, path |-> None,
     requires_dice_roll |-> None, rolls |-> None,
     space_1 |-> None, space_2 |-> None, space_3 |-> None,
     space_4 |-> None, space_5 |-> None]

SpaceCells(r) == <<r.space_1, r.space_2, r.space_3, r.space_4, r.space_5>>

-----------------------------------------------------------------------------
(***************************************************************************)
(* process_game_data.py                                                    *)
(***************************************************************************)

\* rolls = [row[i].strip() if i < len(row) else '' for i in range(3, 9)]
DiceRolls(r) == [i \in 1..6 |-> IF i + 3 <= Len(r) THEN Strip(r[i + 3]) ELSE Empty]

\* DiceSpacesOfRow with "Time outcomes" taken for movement like "Next Step"
DiceSpacesOfRow_TimeUnchecked(r) ==
    IF Len(r) >= MinDiceRowLen /\ Strip(r[2]) \in {NextStep, TimeOutcomes}
    THEN {<<Strip(r[1]), Strip(r[3])>>}
    ELSE {}

\* The keys one row of DiceRoll Info.csv adds to dice_spaces
DiceSpacesOfRow(r) ==
    IF Len(r) >= MinDiceRowLen
    THEN LET space_name == Strip(r[1])
             outcome_type == Strip(r[2])
             visit_type == Strip(r[3])
             rolls == DiceRolls(r)
         IN  IF outcome_type = NextStep
             THEN {<<space_name, visit_type>>}
             ELSE IF outcome_type = TimeOutcomes
                     /\ \E i \in 1..6 : rolls[i] # Empty /\ is_valid_space_name(rolls[i])
             THEN {<<space_name, visit_type>>}
             ELSE {}
    ELSE {}

\* FileNotFoundError is caught: a warning, and the empty set
load_dice_data(file) ==
    IF file.exists
    THEN UNION { DiceSpacesOfRow(file.rows[i]) : i \in DOMAIN file.rows }
    ELSE {}

\* Last index of the longest run of [A-Z0-9-] that starts at i
RunEnd(s, i) ==
    CHOOSE e \in i..Len(s) :
        /\ \A k \in i..e : s[k] \in IdChars
        /\ e = Len(s) \/ s[e + 1] \notin IdChars

\* re.findall(r'[A-Z][A-Z0-9\-]{2,}', s) scanning from position i
RECURSIVE FindAllFrom(_, _)
FindAllFrom(s, i) ==
    IF i > Len(s) THEN <<>>
    ELSE IF s[i] \in UpperChars /\ RunEnd(s, i) - i + 1 >= MinMatchLen
    THEN <<Slice(s, i, RunEnd(s, i))>> \o FindAllFrom(s, RunEnd(s, i) + 1)
    ELSE FindAllFrom(s, i + 1)

potential_names(condition_text) == FindAllFrom(condition_text, 1)

extract_destinations_from_logic_conditions(r) ==
    LET found(cell) == { name \in Range(potential_names(Strip(cell))) :
                            is_valid_space_name(name) }
    IN  SortedTexts(UNION { found(SpaceCells(r)[i]) : i \in 1..NumDestinations })

get_all_destination_columns(r) ==
    [i \in 1..NumDestinations |-> Strip(SpaceCells(r)[i])]

create_movement_row(space_name, visit_type, movement_type, destinations) ==
    [space_name |-> space_name,
     visit_type |-> visit_type,
     movement_type |-> movement_type,
     destination_1 |-> IF Len(destinations) > 0 THEN destinations[1] ELSE Empty,
     destination_2 |-> IF Len(destinations) > 1 THEN destinations[2] ELSE Empty,
     destination_3 |-> IF Len(destinations) > 2 THEN destinations[3] ELSE Empty,
     destination_4 |-> IF Len(destinations) > 3 THEN destinations[4] ELSE Empty,
     destination_5 |-> IF Len(destinations) > 4 THEN destinations[5] ELSE Empty,
     condition_1 |-> Empty, condition_2 |-> Empty, condition_3 |-> Empty,
     condition_4 |-> Empty, condition_5 |-> Empty]

Destinations(m) ==
    <<m.destination_1, m.destination_2, m.destination_3, m.destination_4,
      m.destination_5>>

\* row.get(col, '').strip() raises AttributeError on the None of a short row
StripRaises(r) ==
    \E c \in {r.path, r.requires_dice_roll, r.rolls} \cup Range(SpaceCells(r)) :
        c = None

\* SPECIAL CASE: Tutorial space
IsTutorialSpace(r) == r.space_name = START_QUICK_PLAY_GUIDE

\* PRIORITY 1: path == 'LOGIC'
IsLogicPath(r) == Strip(r.path) = LOGIC

\* PRIORITY 2: key in dice_spaces
HasDiceMovement(r, ds) == <<r.space_name, r.visit_type>> \in ds

\* PRIORITY 3: 'option from first visit' in ' '.join(all_dest_columns).lower()
IsStatefulMovement(r) ==
    Contains(Lower(JoinSpace(get_all_destination_columns(r))), OptionFromFirstVisit)

\* PRIORITY 4: any('outcome' in d.lower() and 'dice' in d.lower() ...)
HasDiceMagicText(cells) ==
    \E i \in DOMAIN cells :
        /\ cells[i] # Empty
        /\ Contains(Lower(cells[i]), OutcomeWord)
        /\ Contains(Lower(cells[i]), DiceWord)

\* CountingType with a single valid destination counted as a choice
CountingType_NeverFixed(valid_destinations) ==
    IF Len(valid_destinations) = 0 THEN "none" ELSE "choice"

\* PRIORITY 5: Standard destination counting
CountingType(valid_destinations) ==
    IF Len(valid_destinations) = 0 THEN "none"
    ELSE IF Len(valid_destinations) = 1 THEN "fixed"
    ELSE "choice"

\* StatefulType without the test for an empty list
StatefulType_AlwaysChoice(valid_dests) == "choice"

\* 'choice' if valid_dests else 'none'
StatefulType(valid_dests) == IF valid_dests # <<>> THEN "choice" ELSE "none"

\* MovementOfRow with PRIORITY 4 (the magic text) tested before PRIORITY 3
MovementOfRow_MagicTextFirst(r, ds) ==
    LET space_name == r.space_name
        visit_type == r.visit_type
        all_dest_columns == get_all_destination_columns(r)
        valid_dests == SelectSeq(all_dest_columns, is_valid_space_name)
    IN  IF IsTutorialSpace(r)
        THEN create_movement_row(space_name, visit_type, "none", <<>>)
        ELSE IF IsLogicPath(r)
        THEN create_movement_row(space_name, visit_type, "choice",
                                 extract_destinations_from_logic_conditions(r))
        ELSE IF HasDiceMovement(r, ds)
        THEN create_movement_row(space_name, visit_type, "dice", <<>>)
        ELSE IF HasDiceMagicText(all_dest_columns)
        THEN create_movement_row(space_name, visit_type, "dice", <<>>)
        ELSE IF IsStatefulMovement(r)
        THEN create_movement_row(space_name, visit_type,
                                 StatefulType(valid_dests), valid_dests)
        ELSE create_movement_row(space_name, visit_type,
                                 CountingType(valid_dests), valid_dests)

\* The body of the loop over Spaces.csv for a row that does not raise
MovementOfRow(r, ds) ==
    LET space_name == r.space_name
        visit_type == r.visit_type
        all_dest_columns == get_all_destination_columns(r)
        valid_dests == SelectSeq(all_dest_columns, is_valid_space_name)
    IN  IF IsTutorialSpace(r)
        THEN create_movement_row(space_name, visit_type, "none", <<>>)
        ELSE IF IsLogicPath(r)
        THEN create_movement_row(space_name, visit_type, "choice",
                                 extract_destinations_from_logic_conditions(r))
        ELSE IF HasDiceMovement(r, ds)
        THEN create_movement_row(space_name, visit_type, "dice", <<>>)
        ELSE IF IsStatefulMovement(r)
        THEN create_movement_row(space_name, visit_type,
                                 StatefulType(valid_dests), valid_dests)
        ELSE IF HasDiceMagicText(all_dest_columns)
        THEN create_movement_row(space_name, visit_type, "dice", <<>>)
        ELSE create_movement_row(space_name, visit_type,
                                 CountingType(valid_dests), valid_dests)

\* main() of a script that ends by an uncaught exception: traceback, status 1
Abort(name) ==
    /\ pc' = "exited"
    /\ exception' = name
    /\ exit_status' = 1

\* PGD_LoadDice without the except clause: a missing dice file ends the run
PGD_LoadDice_Fatal ==
    /\ script = "process_game_data" /\ pc = "start"
    /\ IF fs.DiceRoll.exists
       THEN /\ dice_spaces' = load_dice_data(fs.DiceRoll)
            /\ pc' = "open_spaces"
            /\ UNCHANGED <<exit_status, exception>>
       ELSE /\ Abort("FileNotFoundError")
            /\ UNCHANGED dice_spaces
    /\ UNCHANGED <<fs, loopVars, movements, NotOfPGD>>

\* dice_spaces = load_dice_data()
PGD_LoadDice ==
    /\ script = "process_game_data" /\ pc = "start"
    /\ dice_spaces' = load_dice_data(fs.DiceRoll)
    /\ pc' = "open_spaces"
    /\ UNCHANGED <<fs, exit_status, exception, loopVars, movements, NotOfPGD>>

\* with open(input_file, 'r', encoding='utf-8') as f
PGD_OpenSpaces ==
    /\ script = "process_game_data" /\ pc = "open_spaces"
    /\ IF fs.Spaces.exists
       THEN /\ pc' = "loop"
            /\ UNCHANGED <<exit_status, exception>>
       ELSE Abort("FileNotFoundError")
    /\ UNCHANGED <<fs, loopVars, movements, dice_spaces, NotOfPGD>>

\* One iteration of: for row in reader
PGD_ProcessRow ==
    /\ script = "process_game_data" /\ pc = "loop"
    /\ nread < Len(fs.Spaces.rows)
    /\ nread' = nread + 1
    /\ row' = fs.Spaces.rows[nread + 1]
    /\ IF SpaceNameKeyError(fs.Spaces, "utf-8")
       THEN /\ Abort("KeyError")
            /\ UNCHANGED movements
       ELSE IF StripRaises(row')
       THEN /\ Abort("AttributeError")
            /\ UNCHANGED movements
       ELSE /\ movements' = Append(movements, MovementOfRow(row', dice_spaces))
            /\ UNCHANGED <<pc, exit_status, exception>>
    /\ UNCHANGED <<fs, dice_spaces, NotOfPGD>>

\* The reader is exhausted: MOVEMENT.csv is written with csv.DictWriter
PGD_WriteMovement ==
    /\ script = "process_game_data" /\ pc = "loop"
    /\ nread = Len(fs.Spaces.rows)
    /\ fs' = [fs EXCEPT !.MOVEMENT = FileOf(movements)]
    /\ pc' = "written"
    /\ UNCHANGED <<exit_status, exception, loopVars, movements, dice_spaces,
                   NotOfPGD>>

\* process_dice_info_to_outcomes() returns at once; main() ends, status 0
PGD_Finish ==
    /\ script = "process_game_data" /\ pc = "written"
    /\ pc' = "exited"
    /\ exit_status' = 0
    /\ UNCHANGED <<fs, exception, loopVars, movements, dice_spaces, NotOfPGD>>

-----------------------------------------------------------------------------
(***************************************************************************)
(* A call of is_valid_space_name of process_game_data.py                   *)
(***************************************************************************)

\* accepted = is_valid_space_name(candidate)
NAME_Classify ==
    /\ script = "is_valid_space_name" /\ pc = "start"
    /\ accepted' = is_valid_space_name(candidate)
    /\ pc' = "exited"
    /\ UNCHANGED <<candidate, exit_status, exception, NotOfNAME>>

-----------------------------------------------------------------------------
(***************************************************************************)
(* Python dicts: entries [key, value] in insertion order                   *)
(***************************************************************************)

DictKeys(d) == { d[i].key : i \in DOMAIN d }
DictGet(d, k) == d[CHOOSE i \in DOMAIN d : d[i].key = k].value

\* d[k] = v: a new key goes last, an old key keeps its place
DictPut(d, k, v) ==
    IF k \in DictKeys(d)
    THEN [i \in DOMAIN d |-> IF d[i].key = k THEN [key |-> k, value |-> v] ELSE d[i]]
    ELSE Append(d, [key |-> k, value |-> v])

-----------------------------------------------------------------------------
(***************************************************************************)
(* fix_all_movements.py                                                    *)
(***************************************************************************)

FixTimeWords == {<<"d","a","y">>, <<"d","a","y","s">>, <<"w","e","e","k">>, <<"w","e","e","k","s">>, <<"m","o","n","t","h">>}
FixInstructionPrefixes ==
    {<<"d","i","d"," ","y","o","u">>, <<"d","o"," ","y","o","u">>, <<"o","p","t","i","o","n"," ","f","r","o","m">>, <<"s","p","a","c","e"," ">>, <<"c","h","o","o","s","e">>, <<"r","o","l","l">>}

\* is_valid_space_name of fix_all_movements.py
FixAll_is_valid_space_name(raw) ==
    LET name == Strip(raw) IN
    IF raw = <<>> \/ name = <<>> THEN FALSE
    ELSE IF \E x \in FixTimeWords : Contains(Lower(name), x) THEN FALSE
    ELSE IF \E x \in FixInstructionPrefixes : StartsWith(Lower(name), x) THEN FALSE
    ELSE IF ~\E i \in DOMAIN name : name[i] \in UpperChars THEN FALSE
    ELSE TRUE

\* if len(row) < 3: continue
MinKeyCells == 3

\* The loop of load_source_dice_data over the rows from position i on
RECURSIVE LoadDiceRows(_, _, _)
LoadDiceRows(rows, i, acc) ==
    IF i > Len(rows) THEN acc
    ELSE LET r == rows[i] IN
         IF Len(r) < MinKeyCells THEN LoadDiceRows(rows, i + 1, acc)
         ELSE LET key == <<Strip(r[1]), Strip(r[3])>>
                  outcome_type == Strip(r[2])
                  old == IF key \in DictKeys(acc) THEN DictGet(acc, key) ELSE <<>>
              IN  LoadDiceRows(rows, i + 1,
                      DictPut(acc, key, DictPut(old, outcome_type, DiceRolls(r))))

load_source_dice_data(file) == LoadDiceRows(file.rows, 1, <<>>)

\* row['visit_type'].strip() and row.get('space_i', '').strip() on None
FixStripRaises(r) ==
    \E c \in {r.space_name, r.visit_type} \cup Range(SpaceCells(r)) : c = None

\* FixMovementOfRow with the valid cells kept beside the dice placeholder phrase
FixMovementOfRow_DiceKeepsCells(r, dd) ==
    LET space_name == Strip(r.space_name)
        visit_type == Strip(r.visit_type)
        all_dests == get_all_destination_columns(r)
        key == <<space_name, visit_type>>
        data == IF key \in DictKeys(dd) THEN DictGet(dd, key) ELSE <<>>
        has_dice_data ==
            key \in DictKeys(dd)
            /\ (NextStep \in DictKeys(data) \/ TimeOutcomes \in DictKeys(data))
        validOf(category) ==
            SelectSeq(DictGet(data, category), FixAll_is_valid_space_name)
        by_next_step ==
            has_dice_data /\ NextStep \in DictKeys(data) /\ validOf(NextStep) # <<>>
        by_time_outcomes ==
            has_dice_data /\ ~by_next_step /\ TimeOutcomes \in DictKeys(data)
            /\ validOf(TimeOutcomes) # <<>>
        valid_dests == SelectSeq(all_dests, FixAll_is_valid_space_name)
    IN  IF by_next_step \/ by_time_outcomes
        THEN create_movement_row(space_name, visit_type, "dice", <<>>)
        ELSE IF HasDiceMagicText(all_dests)
        THEN create_movement_row(space_name, visit_type, "dice", valid_dests)
        ELSE IF Len(valid_dests) = 0
        THEN create_movement_row(space_name, visit_type, "none", <<>>)
        ELSE create_movement_row(space_name, visit_type,
                                 CountingType(valid_dests), valid_dests)

\* The body of the loop of process_movements_comprehensive
FixMovementOfRow(r, dd) ==
    LET space_name == Strip(r.space_name)
        visit_type == Strip(r.visit_type)
        all_dests == get_all_destination_columns(r)
        key == <<space_name, visit_type>>
        data == IF key \in DictKeys(dd) THEN DictGet(dd, key) ELSE <<>>
        has_dice_data ==
            key \in DictKeys(dd)
            /\ (NextStep \in DictKeys(data) \/ TimeOutcomes \in DictKeys(data))
        validOf(category) ==
            SelectSeq(DictGet(data, category), FixAll_is_valid_space_name)
        by_next_step ==
            has_dice_data /\ NextStep \in DictKeys(data) /\ validOf(NextStep) # <<>>
        by_time_outcomes ==
            has_dice_data /\ ~by_next_step /\ TimeOutcomes \in DictKeys(data)
            /\ validOf(TimeOutcomes) # <<>>
        valid_dests == SelectSeq(all_dests, FixAll_is_valid_space_name)
    IN  IF by_next_step \/ by_time_outcomes
        THEN create_movement_row(space_name, visit_type, "dice", <<>>)
        ELSE IF HasDiceMagicText(all_dests)
        THEN create_movement_row(space_name, visit_type, "dice", <<>>)
        ELSE IF Len(valid_dests) = 0
        THEN create_movement_row(space_name, visit_type, "none", <<>>)
        ELSE create_movement_row(space_name, visit_type,
                                 CountingType(valid_dests), valid_dests)

\* valid_rolls = [r if is_valid_space_name(r) else '' for r in rolls]
ValidRolls(rolls) ==
    [i \in DOMAIN rolls |->
        IF FixAll_is_valid_space_name(rolls[i]) THEN rolls[i] ELSE Empty]

OutcomeRow(key, valid_rolls) ==
    [space_name |-> key[1], visit_type |-> key[2],
     roll_1 |-> valid_rolls[1], roll_2 |-> valid_rolls[2],
     roll_3 |-> valid_rolls[3], roll_4 |-> valid_rolls[4],
     roll_5 |-> valid_rolls[5], roll_6 |-> valid_rolls[6]]

\* OutcomesOfItem without the test for a valid roll
OutcomesOfItem_AlwaysAdds(key, data) ==
    LET category == IF NextStep \in DictKeys(data) THEN NextStep ELSE TimeOutcomes
    IN  IF category \in DictKeys(data)
        THEN <<OutcomeRow(key, ValidRolls(DictGet(data, category)))>>
        ELSE <<>>

\* The rows one item of dice_data adds to outcomes
OutcomesOfItem(key, data) ==
    LET category == IF NextStep \in DictKeys(data) THEN NextStep ELSE TimeOutcomes
    IN  IF category \in DictKeys(data)
           /\ \E i \in 1..6 : ValidRolls(DictGet(data, category))[i] # Empty
        THEN <<OutcomeRow(key, ValidRolls(DictGet(data, category)))>>
        ELSE <<>>

\* The loop of process_dice_outcomes_comprehensive from item i on
RECURSIVE OutcomesFrom(_, _)
OutcomesFrom(dd, i) ==
    IF i > Len(dd) THEN <<>>
    ELSE OutcomesOfItem(dd[i].key, dd[i].value) \o OutcomesFrom(dd, i + 1)

\* process_movements_comprehensive: dice_data = load_source_dice_data()
FIX_LoadDice ==
    /\ script = "fix_all_movements" /\ pc = "start"
    /\ IF fs.DiceRoll.exists
       THEN /\ dice_data' = load_source_dice_data(fs.DiceRoll)
            /\ pc' = "open_spaces"
            /\ UNCHANGED <<exit_status, exception>>
       ELSE /\ Abort("FileNotFoundError")
            /\ UNCHANGED dice_data
    /\ UNCHANGED <<fs, loopVars, movements, outcomes, NotOfFIX>>

\* with open(spaces_file, 'r', encoding='utf-8') as f
FIX_OpenSpaces ==
    /\ script = "fix_all_movements" /\ pc = "open_spaces"
    /\ IF fs.Spaces.exists
       THEN /\ pc' = "loop"
            /\ UNCHANGED <<exit_status, exception>>
       ELSE Abort("FileNotFoundError")
    /\ UNCHANGED <<fs, loopVars, movements, fixLocals, NotOfFIX>>

\* One iteration of: for row in reader
FIX_ProcessRow ==
    /\ script = "fix_all_movements" /\ pc = "loop"
    /\ nread < Len(fs.Spaces.rows)
    /\ nread' = nread + 1
    /\ row' = fs.Spaces.rows[nread + 1]
    /\ IF SpaceNameKeyError(fs.Spaces, "utf-8")
       THEN /\ Abort("KeyError")
            /\ UNCHANGED movements
       ELSE IF FixStripRaises(row')
       THEN /\ Abort("AttributeError")
            /\ UNCHANGED movements
       ELSE /\ movements' = Append(movements, FixMovementOfRow(row', dice_data))
            /\ UNCHANGED <<pc, exit_status, exception>>
    /\ UNCHANGED <<fs, fixLocals, NotOfFIX>>

\* The reader is exhausted: MOVEMENT.csv is written
FIX_WriteMovement ==
    /\ script = "fix_all_movements" /\ pc = "loop"
    /\ nread = Len(fs.Spaces.rows)
    /\ fs' = [fs EXCEPT !.MOVEMENT = FileOf(movements)]
    /\ pc' = "dice_outcomes"
    /\ UNCHANGED <<exit_status, exception, loopVars, movements, fixLocals,
                   NotOfFIX>>

\* process_dice_outcomes_comprehensive: reload, collect, write DICE_OUTCOMES.csv
FIX_DiceOutcomes ==
    /\ script = "fix_all_movements" /\ pc = "dice_outcomes"
    /\ dice_data' = load_source_dice_data(fs.DiceRoll)
    /\ outcomes' = OutcomesFrom(dice_data', 1)
    /\ fs' = [fs EXCEPT !.DICE_OUTCOMES = FileOf(outcomes')]
    /\ pc' = "written"
    /\ UNCHANGED <<exit_status, exception, loopVars, movements, NotOfFIX>>

\* main() ends, status 0
FIX_Finish ==
    /\ script = "fix_all_movements" /\ pc = "written"
    /\ pc' = "exited"
    /\ exit_status' = 0
    /\ UNCHANGED <<fs, exception, loopVars, movements, fixLocals, NotOfFIX>>

-----------------------------------------------------------------------------
(***************************************************************************)
(* validate_movement_data.py                                               *)
(***************************************************************************)

\* is_valid_space_name of validate_movement_data.py
Validate_is_valid_space_name(raw) ==
    LET name == Strip(raw) IN
    IF raw = <<>> \/ name = <<>> THEN FALSE
    ELSE IF ~MatchesNamePattern(name) THEN FALSE
    ELSE IF "?" \in Range(name) THEN FALSE
    ELSE IF "-" \notin Range(name) /\ name \notin {START, FINISH} THEN FALSE
    ELSE IF Len(name) < MinNameLen THEN FALSE
    ELSE TRUE

\* The loop of load_csv_dict(filepath, ['space_name', 'visit_type'])
RECURSIVE LoadCsvRows(_, _, _)
LoadCsvRows(rows, i, data) ==
    IF i > Len(rows) THEN data
    ELSE LoadCsvRows(rows, i + 1,
             DictPut(data, <<rows[i].space_name, rows[i].visit_type>>, rows[i]))

load_csv_dict(file) == LoadCsvRows(file.rows, 1, <<>>)

Issue(key, issue) == [space |-> key[1], visit |-> key[2], issue |-> issue]

\* destinations: the stripped, non-empty destination cells of a movement row
NonEmptyDestinations(movement) ==
    SelectSeq([i \in 1..NumDestinations |-> Strip(Destinations(movement)[i])],
              LAMBDA d : d # Empty)

\* One Issue per element of bad_dests, in order
IssuesFor(key, bad_dests, issue) ==
    [i \in DOMAIN bad_dests |-> Issue(key, issue)]

\* CHECK 1 .. CHECK 4: the errors one item of movements adds
ErrorsOfItem(key, movement, outcomes_dict) ==
    LET destinations == NonEmptyDestinations(movement)
        movement_type == movement.movement_type
    IN  IssuesFor(key, SelectSeq(destinations, LAMBDA d : "?" \in Range(d)),
                  "QUESTION_IN_DESTINATION")
        \o IssuesFor(key,
                     SelectSeq(destinations,
                               LAMBDA d : ~Validate_is_valid_space_name(d)),
                     "INVALID_DESTINATION")
        \o (IF movement_type = "dice" /\ key \notin DictKeys(outcomes_dict)
            THEN <<Issue(key, "MISSING_DICE_OUTCOMES")>> ELSE <<>>)
        \o (IF movement_type \notin {"none", "dice"} /\ destinations = <<>>
            THEN <<Issue(key, "NO_DESTINATIONS")>> ELSE <<>>)

\* CHECK 5: the warnings one item of movements adds
WarningsOfItem(key, movement) ==
    IssuesFor(key,
              SelectSeq(NonEmptyDestinations(movement),
                        LAMBDA d : \/ Contains(Upper(d), YES)
                                   \/ Contains(Upper(d), NO)
                                   \/ Contains(d, <<" ","o","r"," ">>)),
              "POSSIBLE_UNPARSED_LOGIC")

\* return 0 / return 1 if errors else 0, handed to exit()
MainStatus(errs, warns) == IF errs # <<>> THEN 1 ELSE 0

\* movements = load_csv_dict(...); dice_outcomes = load_csv_dict(...)
VMD_Load ==
    /\ script = "validate_movement_data" /\ pc = "start"
    /\ IF fs.MOVEMENT.exists /\ fs.DICE_OUTCOMES.exists
       THEN /\ movements' = load_csv_dict(fs.MOVEMENT)
            /\ dice_outcomes' = load_csv_dict(fs.DICE_OUTCOMES)
            /\ pc' = "loop"
            /\ UNCHANGED <<exit_status, exception>>
       ELSE /\ Abort("FileNotFoundError")
            /\ UNCHANGED <<movements, dice_outcomes>>
    /\ UNCHANGED <<loopVars, errors, warnings, NotOfVMD>>

\* One iteration of: for key, movement in movements.items()
VMD_CheckItem ==
    /\ script = "validate_movement_data" /\ pc = "loop"
    /\ nread < Len(movements)
    /\ nread' = nread + 1
    /\ row' = movements[nread + 1].value
    /\ errors' = errors \o ErrorsOfItem(movements[nread + 1].key, row', dice_outcomes)
    /\ warnings' = warnings \o WarningsOfItem(movements[nread + 1].key, row')
    /\ UNCHANGED <<procVars, movements, dice_outcomes, NotOfVMD>>

\* The report is printed; exit(main())
VMD_Report ==
    /\ script = "validate_movement_data" /\ pc = "loop"
    /\ nread = Len(movements)
    /\ pc' = "exited"
    /\ exit_status' = MainStatus(errors, warnings)
    /\ UNCHANGED <<exception, loopVars, movements, vmdLocals, NotOfVMD>>

-----------------------------------------------------------------------------
(***************************************************************************)
(* VALIDATION/validate_data.py: main()                                     *)
(***************************************************************************)

\* checks = [validate_space_names, validate_visit_types, validate_dice_outcomes,
\*           validate_effects_data, validate_content_data]
NumChecks == 5

\* What a check does with the files it reads: it returns True, returns False,
\* or raises (a file is missing, a column is missing).
CheckOutcomes == {"True", "False", "raised"}

\* try: results.append(check()) / except Exception: results.append(False)
ResultOf(outcome) == outcome = "True"

\* all(results)
AllResults(rs) == \A i \in DOMAIN rs : rs[i]

\* One iteration of: for check in checks
VD_RunCheck ==
    /\ script = "validate_data" /\ pc = "start"
    /\ Len(results) < NumChecks
    /\ \E outcome \in CheckOutcomes :
          results' = Append(results, ResultOf(outcome))
    /\ UNCHANGED <<procVars, NotOfVD>>

\* main() returns all(results); the caller drops the value, the process ends
VD_Finish ==
    /\ script = "validate_data" /\ pc = "start"
    /\ Len(results) = NumChecks
    /\ pc' = "exited"
    /\ exit_status' = 0
    /\ UNCHANGED <<exception, results, NotOfVD>>


\* validate_movement_data.py is started after process_game_data.py has ended
\* with status 0, on the MOVEMENT.csv it wrote
VMD_RunOnOutput ==
    /\ script = "process_game_data" /\ pc = "exited" /\ exit_status = 0
    /\ script' = "validate_movement_data"
    /\ pc' = "start"
    /\ nread' = 0
    /\ row' = NoRow
    /\ UNCHANGED <<fs, exit_status, exception, movements, pgdLocals, fixLocals,
                   vmdLocals, vdLocals, otherLocals>>

\* read_csv_file: the rows of the file (opened with utf-8-sig)
read_csv_file(file) == file.rows

\* story_rows: the rows with row.get('Event') and row['Event'].strip()
StoryRows(spaces_source) ==
    SelectSeq(spaces_source,
              LAMBDA r : r.Event # None /\ r.Event # Empty /\ Strip(r.Event) # Empty)

\* validate_content_data(): content_rows == len(story_rows)
validate_content_data(spaces, content) ==
    Len(read_csv_file(content)) = Len(StoryRows(read_csv_file(spaces)))
-----------------------------------------------------------------------------
(***************************************************************************)
(* process_remaining_files.py                                              *)
(***************************************************************************)


\* str.replace(old, ''): every non-overlapping occurrence, left to right
RECURSIVE Remove(_, _)
Remove(s, old) ==
    IF s = <<>> THEN <<>>
    ELSE IF StartsWithAt(s, old, 1)
    THEN Remove(Slice(s, Len(old) + 1, Len(s)), old)
    ELSE <<Head(s)>> \o Remove(Tail(s), old)

\* int(s) accepts s: an optional sign, then digits, single underscores
\* allowed between digits (s has no surrounding whitespace)
IntSyntax(s) ==
    LET body == IF s # <<>> /\ s[1] \in {"+", "-"} THEN Tail(s) ELSE s IN
    /\ body # <<>>
    /\ \A i \in DOMAIN body : body[i] \in DigitChars \cup {"_"}
    /\ body[1] # "_" /\ body[Len(body)] # "_"
    /\ \A i \in 1..(Len(body) - 1) : ~(body[i] = "_" /\ body[i + 1] = "_")

DigitValue(c) == (CHOOSE i \in DOMAIN DigitSeq : DigitSeq[i] = c) - 1

RECURSIVE NaturalValue(_, _)
NaturalValue(s, acc) ==
    IF s = <<>> THEN acc
    ELSE IF Head(s) = "_" THEN NaturalValue(Tail(s), acc)
    ELSE NaturalValue(Tail(s), 10 * acc + DigitValue(Head(s)))

\* int(s) for a text that IntSyntax accepts
IntValue(s) ==
    IF s[1] = "-" THEN 0 - NaturalValue(Tail(s), 0)
    ELSE IF s[1] = "+" THEN NaturalValue(Tail(s), 0)
    ELSE NaturalValue(s, 0)

\* str(n) for an integer, as csv.DictWriter writes it
RECURSIVE NaturalText(_)
NaturalText(n) ==
    IF n < 10 THEN <<DigitSeq[n + 1]>>
    ELSE NaturalText(n \div 10) \o <<DigitSeq[(n % 10) + 1]>>

IntText(n) == IF n < 0 THEN <<"-">> \o NaturalText(0 - n) ELSE NaturalText(n)

\* A text cell as csv.DictWriter writes it: None as ''
CsvCell(v) == IF v = None THEN Empty ELSE v

\* The cell of a data row under a column that is not the first
\* (row.get(col, default) with the column in the header)
Cell(r, col) == r[col]

\* process_game_config: the first row of each space_name
RECURSIVE GameConfigs(_, _, _)
GameConfigs(rows, i, configs) ==
    IF i > Len(rows) THEN configs
    ELSE LET r == rows[i]
             space_name == r.space_name
             phase == Cell(r, "phase")
             path == Cell(r, "path")
             is_starting == phase = SETUP /\ path = Main
         IN  IF space_name \in DictKeys(configs)
             THEN GameConfigs(rows, i + 1, configs)
             ELSE GameConfigs(rows, i + 1,
                      DictPut(configs, space_name,
                          [space_name |-> space_name,
                           phase |-> phase,
                           path_type |-> path,
                           is_starting_space |-> IF is_starting THEN YesWord ELSE NoWord,
                           is_ending_space |->
                               IF space_name = FINISH THEN YesWord ELSE NoWord,
                           min_players |-> <<"1">>,
                           max_players |-> <<"4">>,
                           requires_dice_roll |-> Cell(r, "requires_dice_roll")]))

\* writer.writerows: every cell as text
WrittenRow(rec) == [f \in DOMAIN rec |-> CsvCell(rec[f])]
WrittenRows(recs) == [i \in DOMAIN recs |-> WrittenRow(recs[i])]
DictValues(d) == [i \in DOMAIN d |-> d[i].value]

\* process_space_content: one content record per row
SpaceContent(r) ==
    [space_name |-> r.space_name,
     visit_type |-> r.visit_type,
     title |-> Cell(r, "Event"),
     story |-> Cell(r, "Event"),
     action_description |-> Cell(r, "Action"),
     outcome_description |-> Cell(r, "Outcome"),
     can_negotiate |-> Cell(r, "Negotiate")]

\* card_types, in the order the dict is iterated
CardTypes ==
    << [col |-> "w_card", letter |-> "W", action |-> <<"d","r","a","w","_","W">>],
       [col |-> "b_card", letter |-> "B", action |-> <<"d","r","a","w","_","B">>],
       [col |-> "i_card", letter |-> "I", action |-> <<"d","r","a","w","_","I">>],
       [col |-> "l_card", letter |-> "L", action |-> <<"d","r","a","w","_","L">>],
       [col |-> "e_card", letter |-> "E", action |-> <<"d","r","a","w","_","E">>] >>

Effect(space_name, visit_type, type, action, value, description, trigger) ==
    [space_name |-> space_name,
     visit_type |-> visit_type,
     effect_type |-> type,
     effect_action |-> action,
     effect_value |-> value,
     condition |-> Empty,
     description |-> description,
     trigger_type |-> trigger]

\* CardTrigger without the named exceptions
CardTrigger_AlwaysManual(space_name, card_letter) == <<"m","a","n","u","a","l">>

\* trigger_type of a card effect
CardTrigger(space_name, card_letter) ==
    IF space_name = OWNER_FUND_INITIATION /\ card_letter \in {"B", "I"}
    THEN <<"a","u","t","o">>
    ELSE IF space_name = PM_DECISION_CHECK /\ card_letter = "L"
    THEN <<"a","u","t","o">>
    ELSE <<"m","a","n","u","a","l">>

\* The columns process_space_effects strips, in the order it reads them
EffectColumns == <<"w_card", "b_card", "i_card", "l_card", "e_card", "Time", "Fee">>

\* The position in EffectColumns of the first None cell of a short row
\* (where .strip() raises AttributeError), Len + 1 when every cell is text
NoneAt(r) ==
    IF \E k \in DOMAIN EffectColumns : Cell(r, EffectColumns[k]) = None
    THEN CHOOSE k \in DOMAIN EffectColumns :
            /\ Cell(r, EffectColumns[k]) = None
            /\ \A j \in 1..(k - 1) : Cell(r, EffectColumns[j]) # None
    ELSE Len(EffectColumns) + 1

\* for col_name, card_letter in card_types.items(): ...
\* (the card types reached before a None cell stops the loop)
CardEffectsOf(r) ==
    LET reached == SubSeq(CardTypes, 1, IF NoneAt(r) > 5 THEN 5 ELSE NoneAt(r) - 1)
        drawn == SelectSeq(reached, LAMBDA c : Strip(Cell(r, c.col)) # Empty)
    IN  [i \in DOMAIN drawn |->
            LET card_value == Strip(Cell(r, drawn[i].col)) IN
            Effect(r.space_name, r.visit_type, <<"c","a","r","d","s">>, drawn[i].action,
                   card_value,
                   card_value \o <<" ", drawn[i].letter>> \o <<" ","c","a","r","d","s">>,
                   CardTrigger(r.space_name, drawn[i].letter))]

\* TimeStr with only the plural unit word removed
TimeStr_DaysOnly(time_value) == Strip(Remove(Lower(time_value), <<"d","a","y","s">>))

\* time_value.lower().replace('days', '').replace('day', '').strip()
TimeStr(time_value) ==
    Strip(Remove(Remove(Lower(time_value), <<"d","a","y","s">>), <<"d","a","y">>))

\* The time effect of a row: none when int(time_str) raises ValueError
TimeEffectsOf(r) ==
    LET time_value == Strip(Cell(r, "Time"))
        time_str == TimeStr(time_value)
    IN  IF time_value # Empty /\ time_str # Empty /\ IntSyntax(time_str)
        THEN <<Effect(r.space_name, r.visit_type, <<"t","i","m","e">>, <<"a","d","d">>,
                      IntValue(time_str), <<"S","p","e","n","d"," ">> \o time_value, <<"a","u","t","o">>)>>
        ELSE <<>>

\* FeeEffectsOf with '0' as the only zero sentinel
FeeEffectsOf_ZeroOnly(r) ==
    LET fee_value == Strip(Cell(r, "Fee")) IN
    IF fee_value # Empty /\ fee_value \notin {Empty, <<"0">>}
    THEN <<Effect(r.space_name, r.visit_type, <<"f","e","e">>, <<"d","e","d","u","c","t">>, fee_value,
                  <<"P","a","y"," ">> \o fee_value \o <<" ","f","e","e","s">>, <<"a","u","t","o">>)>>
    ELSE <<>>

\* The fee effect of a row
FeeEffectsOf(r) ==
    LET fee_value == Strip(Cell(r, "Fee")) IN
    IF fee_value # Empty /\ fee_value \notin {Empty, <<"0">>, <<"0", "%">>}
    THEN <<Effect(r.space_name, r.visit_type, <<"f","e","e">>, <<"d","e","d","u","c","t">>, fee_value,
                  <<"P","a","y"," ">> \o fee_value \o <<" ","f","e","e","s">>, <<"a","u","t","o">>)>>
    ELSE <<>>

\* An effect as csv.DictWriter writes it: the int of a time effect as digits
WrittenEffect(e) ==
    [e EXCEPT !.effect_value =
        IF e.effect_type = <<"t","i","m","e">> THEN IntText(e.effect_value) ELSE e.effect_value]
WrittenEffects(es) == [i \in DOMAIN es |-> WrittenEffect(es[i])]

\* row.get(col, '').strip() raises AttributeError on the None of a short row
EffectStripRaises(r) == NoneAt(r) <= Len(EffectColumns)

\* The effects one iteration appends, up to the cell that raises if one does
EffectsOfRow(r) ==
    CardEffectsOf(r)
        \o (IF NoneAt(r) > 6 THEN TimeEffectsOf(r) ELSE <<>>)
        \o (IF NoneAt(r) > 7 THEN FeeEffectsOf(r) ELSE <<>>)

\* A row of DiceRoll Info.csv as csv.DictReader yields it
DiceDictRow(cells) ==
    LET at(i) == IF i <= Len(cells) THEN cells[i] ELSE None IN
    [space_name |-> at(1), die_roll |-> at(2), visit_type |-> at(3),
     face_1 |-> at(4), face_2 |-> at(5), face_3 |-> at(6),
     face_4 |-> at(7), face_5 |-> at(8), face_6 |-> at(9)]

\* s.split()[0]: the first run of non-whitespace characters
FirstWord(s) ==
    LET t == LStrip(s)
        stop == IF \E i \in DOMAIN t : t[i] \in Whitespace
                THEN (CHOOSE i \in DOMAIN t :
                         /\ t[i] \in Whitespace
                         /\ \A k \in 1..(i - 1) : t[k] \notin Whitespace) - 1
                ELSE Len(t)
    IN  Slice(t, 1, stop)

\* The exception a row of the dice table raises in process_dice_effects, ""
\* when none: None.lower(), or [][0] when die_roll is blank but for spaces
DiceEffectException(d) ==
    IF d.die_roll = None THEN "AttributeError"
    ELSE IF " " \in Range(d.die_roll) /\ Strip(d.die_roll) = Empty
    THEN "IndexError"
    ELSE ""

\* One row of DICE_EFFECTS.csv
DiceEffect(d) ==
    LET die_roll_raw == d.die_roll
        low == Lower(die_roll_raw)
        word == IF " " \in Range(die_roll_raw) THEN FirstWord(die_roll_raw) ELSE Empty
        effect_type ==
            IF Contains(low, <<"c","a","r","d">>) THEN <<"c","a","r","d","s">>
            ELSE IF Contains(low, <<"f","e","e">>) \/ Contains(low, <<"p","a","i","d">>) THEN <<"m","o","n","e","y">>
            ELSE IF Contains(low, <<"t","i","m","e">>) THEN <<"t","i","m","e">>
            ELSE die_roll_raw
        card_type ==
            IF Contains(low, <<"c","a","r","d">>) THEN word
            ELSE IF Contains(low, <<"f","e","e">>) \/ Contains(low, <<"p","a","i","d">>) THEN Empty
            ELSE IF Contains(low, <<"t","i","m","e">>) THEN Empty
            ELSE IF " " \in Range(die_roll_raw) THEN word ELSE die_roll_raw
    IN  [space_name |-> d.space_name,
         visit_type |-> d.visit_type,
         effect_type |-> effect_type,
         card_type |-> card_type,
         roll_1 |-> d.face_1, roll_2 |-> d.face_2, roll_3 |-> d.face_3,
         roll_4 |-> d.face_4, roll_5 |-> d.face_5, roll_6 |-> d.face_6]

\* process_game_config()
PRF_GameConfig ==
    /\ script = "process_remaining_files" /\ pc = "start"
    /\ IF ~fs.Spaces.exists
       THEN Abort("FileNotFoundError") /\ UNCHANGED fs
       ELSE IF fs.Spaces.rows # <<>> /\ SpaceNameKeyError(fs.Spaces, "utf-8")
       THEN Abort("KeyError") /\ UNCHANGED fs
       ELSE /\ fs' = [fs EXCEPT !.GAME_CONFIG =
                        FileOf(WrittenRows(DictValues(
                            GameConfigs(fs.Spaces.rows, 1, <<>>))))]
            /\ pc' = "space_content"
            /\ UNCHANGED <<exit_status, exception>>
    /\ UNCHANGED <<loopVars, effects, NotOfPRF>>

\* process_space_content()
PRF_SpaceContent ==
    /\ script = "process_remaining_files" /\ pc = "space_content"
    /\ fs' = [fs EXCEPT !.SPACE_CONTENT =
                FileOf(WrittenRows([i \in DOMAIN fs.Spaces.rows |->
                                       SpaceContent(fs.Spaces.rows[i])]))]
    /\ pc' = "space_effects"
    /\ UNCHANGED <<exit_status, exception, loopVars, effects, NotOfPRF>>

\* process_space_effects(): one iteration of: for row in reader
PRF_ProcessRow ==
    /\ script = "process_remaining_files" /\ pc = "space_effects"
    /\ nread < Len(fs.Spaces.rows)
    /\ nread' = nread + 1
    /\ row' = fs.Spaces.rows[nread + 1]
    /\ effects' = effects \o EffectsOfRow(row')
    /\ IF EffectStripRaises(row')
       THEN Abort("AttributeError")
       ELSE UNCHANGED <<pc, exit_status, exception>>
    /\ UNCHANGED <<fs, NotOfPRF>>

\* process_space_effects(): the reader is exhausted, SPACE_EFFECTS.csv is written
PRF_WriteEffects ==
    /\ script = "process_remaining_files" /\ pc = "space_effects"
    /\ nread = Len(fs.Spaces.rows)
    /\ fs' = [fs EXCEPT !.SPACE_EFFECTS = FileOf(WrittenEffects(effects))]
    /\ pc' = "dice_effects"
    /\ UNCHANGED <<exit_status, exception, loopVars, effects, NotOfPRF>>

\* process_dice_effects()
PRF_DiceEffects ==
    /\ script = "process_remaining_files" /\ pc = "dice_effects"
    /\ LET rows == [i \in DOMAIN fs.DiceRoll.rows |-> DiceDictRow(fs.DiceRoll.rows[i])]
           bad == { i \in DOMAIN rows : DiceEffectException(rows[i]) # "" }
       IN  IF ~fs.DiceRoll.exists
           THEN Abort("FileNotFoundError") /\ UNCHANGED fs
           ELSE IF rows # <<>> /\ SpaceNameKeyError(fs.DiceRoll, "utf-8-sig")
           THEN Abort("KeyError") /\ UNCHANGED fs
           ELSE IF bad # {}
           THEN /\ Abort(DiceEffectException(
                           rows[CHOOSE i \in bad : \A k \in bad : i <= k]))
                /\ UNCHANGED fs
           ELSE /\ fs' = [fs EXCEPT !.DICE_EFFECTS =
                            FileOf(WrittenRows([i \in DOMAIN rows |->
                                                   DiceEffect(rows[i])]))]
                /\ pc' = "written"
                /\ UNCHANGED <<exit_status, exception>>
    /\ UNCHANGED <<loopVars, effects, NotOfPRF>>

\* main() ends, status 0
PRF_Finish ==
    /\ script = "process_remaining_files" /\ pc = "written"
    /\ pc' = "exited"
    /\ exit_status' = 0
    /\ UNCHANGED <<fs, exception, loopVars, effects, NotOfPRF>>

-----------------------------------------------------------------------------
(***************************************************************************)
(* convert_cards_expanded.py                                               *)
(***************************************************************************)

\* str.isdigit()
IsDigitText(s) == s # <<>> /\ \A i \in DOMAIN s : s[i] \in DigitChars

\* int(s) raises ValueError: int() strips the text, then wants an integer
IntRaises(s) == ~IntSyntax(Strip(s))

\* v or default, for a cell that may be '' or None
OrDefault(v, default) == IF v = None \/ v = Empty THEN default ELSE v

\* The end of the longest run of characters of chars that starts at i
\* (i - 1 when s[i] is not one of them)
RECURSIVE ClassRunEnd(_, _, _)
ClassRunEnd(s, i, chars) ==
    IF i <= Len(s) /\ s[i] \in chars THEN ClassRunEnd(s, i + 1, chars) ELSE i - 1

CardTypeNames ==
    << [name |-> <<"e","x","p","e","d","i","t","o","r">>, letter |-> "E"],
       [name |-> <<"w","o","r","k">>, letter |-> "W"],
       [name |-> <<"b","e","n","e","f","i","t">>, letter |-> "B"],
       [name |-> <<"i","n","v","e","s","t","m","e","n","t">>, letter |-> "I"],
       [name |-> <<"l","a","w">>, letter |-> "L"] >>

\* re.search(r'discard\s+(\d+)\s+(Expeditor|Work|Benefit|Investment|Law)\s+card',
\*           description, re.IGNORECASE) tried at position i:
\* <<>> when it does not match there, else <<count, letter>>
DiscardMatchAt(description, i) ==
    LET low == Lower(description)
        a == i + 7
        b == ClassRunEnd(low, a, Whitespace)
        c == ClassRunEnd(low, b + 1, DigitChars)
        d == ClassRunEnd(low, c + 1, Whitespace)
        named == { k \in DOMAIN CardTypeNames :
                     StartsWithAt(low, CardTypeNames[k].name, d + 1) }
    IN  IF /\ StartsWithAt(low, <<"d","i","s","c","a","r","d">>, i)
           /\ b >= a /\ c > b /\ d > c
           /\ \E k \in named :
                 LET e == d + Len(CardTypeNames[k].name)
                     f == ClassRunEnd(low, e + 1, Whitespace)
                 IN  f > e /\ StartsWithAt(low, <<"c","a","r","d">>, f + 1)
        THEN LET k == CHOOSE k \in named :
                         LET e == d + Len(CardTypeNames[k].name)
                             f == ClassRunEnd(low, e + 1, Whitespace)
                         IN  f > e /\ StartsWithAt(low, <<"c","a","r","d">>, f + 1)
             IN  <<Slice(description, b + 1, c), CardTypeNames[k].letter>>
        ELSE <<>>

\* discard_cards: rewritten as '<count> <letter>' when the description names
\* the card type to discard (the leftmost match)
DiscardCards(discard_cards_raw, description) ==
    LET truthy(v) == v # None /\ v # Empty
        hits == IF truthy(description)
                THEN { i \in DOMAIN description :
                         DiscardMatchAt(description, i) # <<>> }
                ELSE {}
    IN  IF truthy(discard_cards_raw) /\ hits # {}
        THEN LET m == DiscardMatchAt(description,
                          CHOOSE i \in hits : \A j \in hits : i <= j)
             IN  m[1] \o <<" ", m[2]>>
        ELSE discard_cards_raw

\* turn_effect: the dice_effect cell when it mentions a turn
TurnEffect(r) ==
    IF Contains(Lower(r.dice_effect), <<"t","u","r","n">>) THEN r.dice_effect ELSE Empty

\* tick_modifier: the tick_modifier cell, else the time_effect cell, else '0'
TickModifier(r) ==
    OrDefault(OrDefault(r.tick_modifier, r.time_effect), <<"0">>)

\* Determine cost (unified logic): the first branch whose column is a digit
\* string, the money_cost column last; 0 when none is
CardCost(r) ==
    LET loan_amount == OrDefault(r.loan_amount, <<"0">>)
        investment_amount == OrDefault(r.investment_amount, <<"0">>)
        work_cost == OrDefault(r.work_cost, <<"0">>)
    IN  IF r.card_type = <<"B">> /\ IsDigitText(loan_amount)
        THEN NaturalValue(loan_amount, 0)
        ELSE IF r.card_type = <<"I">> /\ IsDigitText(investment_amount)
        THEN NaturalValue(investment_amount, 0)
        ELSE IF r.card_type = <<"W">> /\ IsDigitText(work_cost)
        THEN NaturalValue(work_cost, 0)
        ELSE IF IsDigitText(r.money_cost)
        THEN NaturalValue(r.money_cost, 0)
        ELSE 0

\* The money_cost branch is reached
ReachesMoneyCost(r) ==
    ~ \/ r.card_type = <<"B">> /\ IsDigitText(OrDefault(r.loan_amount, <<"0">>))
      \/ r.card_type = <<"I">> /\ IsDigitText(OrDefault(r.investment_amount, <<"0">>))
      \/ r.card_type = <<"W">> /\ IsDigitText(OrDefault(r.work_cost, <<"0">>))

\* The first column name as csv.DictReader reads it: the file is opened with
\* encoding='utf-8', so behind a byte-order mark row.get('card_id', '') finds
\* no such column and returns the default
CardId(file, r) == IF file.bom THEN Empty ELSE r.card_id

\* converted_card
ConvertedCard(file, r) ==
    [card_id |-> CardId(file, r),
     card_name |-> r.card_name,
     card_type |-> r.card_type,
     description |-> r.description,
     effects_on_play |-> r.immediate_effect,
     cost |-> CardCost(r),
     phase_restriction |-> r.phase_restriction,
     duration |-> r.duration,
     duration_count |-> OrDefault(r.duration_count, <<"0">>),
     turn_effect |-> TurnEffect(r),
     activation_timing |-> r.activation_timing,
     loan_amount |-> OrDefault(r.loan_amount, <<"0">>),
     loan_rate |-> OrDefault(r.loan_rate, <<"0">>),
     investment_amount |-> OrDefault(r.investment_amount, <<"0">>),
     work_cost |-> OrDefault(r.work_cost, <<"0">>),
     money_effect |-> r.money_effect,
     tick_modifier |-> TickModifier(r),
     draw_cards |-> r.draw_cards,
     discard_cards |-> DiscardCards(r.discard_cards, r.description),
     target |-> r.target,
     scope |-> r.scope,
     work_type_restriction |-> r.work_type_restriction]

\* A card record as csv.DictWriter writes it: None as '', the int cost as digits
WrittenCard(card) ==
    [f \in DOMAIN card |->
        IF f = "cost" THEN NaturalText(card[f]) ELSE CsvCell(card[f])]

\* The exception an iteration raises before the record is appended, "" when
\* none: None.lower() on the dice_effect of a short row, None.isdigit() on
\* its money_cost
CardRowException(r) ==
    IF r.dice_effect = None THEN "AttributeError"
    ELSE IF ReachesMoneyCost(r) /\ r.money_cost = None THEN "AttributeError"
    ELSE ""

\* int(tick_modifier) at line 120, or at line 123 when turn_effect is set,
\* raises ValueError: it is evaluated for every card
TickRaises(r) == IntRaises(TickModifier(r))

\* with open(input_file, 'r', newline='', encoding='utf-8') as infile
CCE_Open ==
    /\ script = "convert_cards_expanded" /\ pc = "start"
    /\ IF fs.Cards.exists
       THEN /\ pc' = "loop"
            /\ UNCHANGED <<exit_status, exception>>
       ELSE Abort("FileNotFoundError")
    /\ UNCHANGED <<fs, loopVars, converted_cards, NotOfCCE>>

\* One iteration of: for row in reader
CCE_ProcessRow ==
    /\ script = "convert_cards_expanded" /\ pc = "loop"
    /\ nread < Len(fs.Cards.rows)
    /\ nread' = nread + 1
    /\ row' = fs.Cards.rows[nread + 1]
    /\ IF CardRowException(row') # ""
       THEN /\ Abort(CardRowException(row'))
            /\ UNCHANGED converted_cards
       ELSE /\ converted_cards' = Append(converted_cards, ConvertedCard(fs.Cards, row'))
            /\ IF TickRaises(row')
               THEN Abort("ValueError")
               ELSE UNCHANGED <<pc, exit_status, exception>>
    /\ UNCHANGED <<fs, NotOfCCE>>

\* The reader is exhausted: CARDS_EXPANDED.csv is written
CCE_Write ==
    /\ script = "convert_cards_expanded" /\ pc = "loop"
    /\ nread = Len(fs.Cards.rows)
    /\ fs' = [fs EXCEPT !.CARDS_EXPANDED =
                FileOf([i \in DOMAIN converted_cards |->
                           WrittenCard(converted_cards[i])])]
    /\ pc' = "written"
    /\ UNCHANGED <<exit_status, exception, loopVars, converted_cards, NotOfCCE>>

\* The summary is printed and the script ends, status 0
CCE_Finish ==
    /\ script = "convert_cards_expanded" /\ pc = "written"
    /\ pc' = "exited"
    /\ exit_status' = 0
    /\ UNCHANGED <<fs, exception, loopVars, converted_cards, NotOfCCE>>

-----------------------------------------------------------------------------
(***************************************************************************)
(* migrate_dice_conditions.py                                              *)
(***************************************************************************)

\* A data row of SPACE_EFFECTS.csv as csv.DictReader yields it
EffectFileRow(space, visit, type, action, value, condition, description, trigger) ==
    [space_name |-> space, visit_type |-> visit, effect_type |-> type,
     effect_action |-> action, effect_value |-> value, condition |-> condition,
     description |-> description, trigger_type |-> trigger]

\* A row longer than the header: the cells beyond it are kept under the key
\* None (restkey), here the field rest
IsLongRow(r) == "rest" \in DOMAIN r

\* str(v).lower(): str(None) is 'None'
StrLower(v) == IF v = None THEN <<"n","o","n","e">> ELSE Lower(v)

DicePhrase == <<"i","f"," ","y","o","u"," ","r","o","l","l"," ","a"," ">>

\* re.search(r'if you roll a (\d+)', s): group 1 of the leftmost match,
\* Empty when there is none
DiceConditionOf(s) ==
    LET d(i) == i + Len(DicePhrase)
        hits == { i \in DOMAIN s :
                    /\ StartsWithAt(s, DicePhrase, i)
                    /\ d(i) <= Len(s) /\ s[d(i)] \in DigitChars }
    IN  IF hits = {} THEN Empty
        ELSE LET i == CHOOSE i \in hits : \A j \in hits : i <= j
             IN  Slice(s, d(i), ClassRunEnd(s, d(i), DigitChars))

\* match.group(1): the effect_value is searched first, then the description
RequiredRoll(r) ==
    LET in_value == DiceConditionOf(StrLower(r.effect_value)) IN
    IF in_value # Empty THEN in_value
    ELSE DiceConditionOf(StrLower(r.description))

\* Migrates without the test of the effect_action
Migrates_AnyCardDraw(r) ==
    /\ RequiredRoll(r) # Empty
    /\ r.effect_type = <<"c","a","r","d","s">>

\* The condition at line 31 (effect_action is a text)
Migrates(r) ==
    /\ RequiredRoll(r) # Empty
    /\ r.effect_type = <<"c","a","r","d","s">>
    /\ Contains(Lower(r.effect_action), <<"d","r","a","w","_","l">>)

\* MigratedRow that leaves the effect_value as it is
MigratedRow_KeepsValue(r) ==
    [r EXCEPT !.condition = <<"d","i","c","e","_","r","o","l","l","_">> \o RequiredRoll(r),
              !.description = <<"D","r","a","w"," ","L"," ","c","a","r","d"," ","o","n"," ","r","o","l","l"," ","o","f"," ">> \o RequiredRoll(r)]

\* Update the row
MigratedRow(r) ==
    [r EXCEPT !.condition = <<"d","i","c","e","_","r","o","l","l","_">> \o RequiredRoll(r),
              !.effect_value = <<"1">>,
              !.description = <<"D","r","a","w"," ","L"," ","c","a","r","d"," ","o","n"," ","r","o","l","l"," ","o","f"," ">> \o RequiredRoll(r)]

\* The exception an iteration raises, "" when none: None.lower() on the
\* effect_action of a short row, row['space_name'] in the message behind a
\* byte-order mark
MigrateException(file, r) ==
    IF /\ RequiredRoll(r) # Empty /\ r.effect_type = <<"c","a","r","d","s">>
       /\ r.effect_action = None
    THEN "AttributeError"
    ELSE IF r.effect_action # None /\ Migrates(r)
            /\ SpaceNameKeyError(file, "utf-8")
    THEN "KeyError"
    ELSE ""

\* writer.writerows(rows): the rows before the first one that has cells
\* beyond the header, which raises ValueError
WritableRows(rs) ==
    IF \E i \in DOMAIN rs : IsLongRow(rs[i])
    THEN SubSeq(rs, 1, (CHOOSE i \in DOMAIN rs :
                           /\ IsLongRow(rs[i])
                           /\ \A j \in 1..(i - 1) : ~IsLongRow(rs[j])) - 1)
    ELSE rs

\* The file after csv.DictWriter has written (some of) the rows under the
\* header it was read with
Rewritten(file, rs) ==
    [exists |-> TRUE, bom |-> file.bom, rows |-> WrittenRows(WritableRows(rs))]

\* with open(input_path, 'r', encoding='utf-8') as f
MIG_Open ==
    /\ script = "migrate_dice_conditions" /\ pc = "start"
    /\ runs' = runs + 1
    /\ IF fs.SPACE_EFFECTS.exists
       THEN /\ pc' = "loop"
            /\ UNCHANGED <<exit_status, exception>>
       ELSE Abort("FileNotFoundError")
    /\ UNCHANGED <<fs, loopVars, row_list, migrated_count, fixes_applied,
                   report, NotOfPatch>>

\* One iteration of: for row in reader
MIG_ProcessRow ==
    /\ script = "migrate_dice_conditions" /\ pc = "loop"
    /\ nread < Len(fs.SPACE_EFFECTS.rows)
    /\ nread' = nread + 1
    /\ row' = fs.SPACE_EFFECTS.rows[nread + 1]
    /\ LET raised == MigrateException(fs.SPACE_EFFECTS, row') IN
       IF raised = "AttributeError"
       THEN /\ Abort(raised)
            /\ UNCHANGED <<row_list, migrated_count>>
       ELSE IF raised = "KeyError"
       THEN /\ Abort(raised)
            /\ migrated_count' = migrated_count + 1
            /\ UNCHANGED row_list
       ELSE /\ IF Migrates(row')
               THEN /\ row_list' = Append(row_list, MigratedRow(row'))
                    /\ migrated_count' = migrated_count + 1
               ELSE /\ row_list' = Append(row_list, row')
                    /\ UNCHANGED migrated_count
            /\ UNCHANGED <<pc, exit_status, exception>>
    /\ UNCHANGED <<fs, runs, fixes_applied, report, NotOfPatch>>

\* Write the updated CSV, over the input
MIG_Write ==
    /\ script = "migrate_dice_conditions" /\ pc = "loop"
    /\ nread = Len(fs.SPACE_EFFECTS.rows)
    /\ fs' = [fs EXCEPT !.SPACE_EFFECTS = Rewritten(fs.SPACE_EFFECTS, row_list)]
    /\ IF WritableRows(row_list) # row_list
       THEN Abort("ValueError")
       ELSE /\ pc' = "written"
            /\ UNCHANGED <<exit_status, exception>>
    /\ UNCHANGED <<loopVars, patchLocals, NotOfPatch>>

\* return migrated_count; the script ends, status 0
MIG_Finish ==
    /\ script = "migrate_dice_conditions" /\ pc = "written"
    /\ pc' = "exited"
    /\ exit_status' = 0
    /\ UNCHANGED <<fs, exception, loopVars, patchLocals, NotOfPatch>>

\* The script is run again on the file it has written
MIG_Rerun ==
    /\ script = "migrate_dice_conditions" /\ pc = "exited"
    /\ exit_status = 0
    /\ runs < MaxRuns
    /\ pc' = "start"
    /\ nread' = 0
    /\ row' = NoRow
    /\ row_list' = <<>>
    /\ migrated_count' = 0
    /\ UNCHANGED <<fs, exit_status, exception, runs, fixes_applied, report,
                   NotOfPatch>>

-----------------------------------------------------------------------------
(***************************************************************************)
(* scripts/fix-l-cards.py                                                  *)
(***************************************************************************)

\* The condition of Fix 1: the L draw of LEND-SCOPE-CHECK, First that should
\* be an E draw
IsELBug(r) ==
    /\ r.space_name = LEND_SCOPE_CHECK
    /\ r.visit_type = First
    /\ r.effect_type = <<"c","a","r","d","s">>
    /\ r.effect_action = <<"d","r","a","w","_","l">>
    /\ r.condition = Always

\* Fix 1: LEND-SCOPE-CHECK E/L bug
Fix1(r) ==
    IF IsELBug(r)
    THEN [r EXCEPT !.effect_action = <<"d","r","a","w","_","e">>,
                   !.description = <<"D","r","a","w"," ","1"," ","E"," ","c","a","r","d">>]
    ELSE r

\* not trigger or trigger.strip() == ''
TriggerIsBlank(trigger) == trigger = None \/ Strip(trigger) = Empty

\* The counter Fix 2 increments for a row with these locals, "" when none
Fix2Counter(effect_type, effect_action, trigger) ==
    IF ~(effect_type = <<"c","a","r","d","s">> /\ effect_action = <<"d","r","a","w","_","l">>) THEN ""
    ELSE IF trigger = <<"m","a","n","u","a","l">> THEN "l_cards_auto"
    ELSE IF trigger = <<"a","u","t","o">> THEN "l_cards_already_auto"
    ELSE IF TriggerIsBlank(trigger) THEN "l_cards_empty_to_auto"
    ELSE ""

\* Fix 2: all L card draws should be auto. The test reads the locals
\* effect_type, effect_action and trigger, which were set from the row read
\* (read), before Fix 1 changed the row (r)
Fix2(read, r) ==
    IF Fix2Counter(read.effect_type, read.effect_action, read.trigger_type)
          \in {"l_cards_auto", "l_cards_empty_to_auto"}
    THEN [r EXCEPT !.trigger_type = <<"a","u","t","o">>]
    ELSE r

\* One pass of the loop body over a row
FixedRow(r) == Fix2(r, Fix1(r))

\* fixes_applied after the loop body has run on the row
FixesAfter(fixes, r) ==
    LET c == Fix2Counter(r.effect_type, r.effect_action, r.trigger_type)
        f1 == IF IsELBug(r)
              THEN [fixes EXCEPT !.e_l_bug_fixed = @ + 1]
              ELSE fixes
    IN  IF c = "" THEN f1 ELSE [f1 EXCEPT ![c] = @ + 1]

\* shutil.copy2(INPUT_FILE, BACKUP_FILE)
FLC_Backup ==
    /\ script = "fix-l-cards" /\ pc = "start"
    /\ IF fs.SPACE_EFFECTS.exists
       THEN /\ fs' = [fs EXCEPT !.SPACE_EFFECTS_backup = fs.SPACE_EFFECTS]
            /\ pc' = "read"
            /\ UNCHANGED <<exit_status, exception>>
       ELSE /\ Abort("FileNotFoundError")
            /\ UNCHANGED fs
    /\ UNCHANGED <<loopVars, patchLocals, NotOfPatch>>

\* Read all rows
FLC_Read ==
    /\ script = "fix-l-cards" /\ pc = "read"
    /\ row_list' = fs.SPACE_EFFECTS.rows
    /\ pc' = "loop"
    /\ UNCHANGED <<fs, exit_status, exception, loopVars, migrated_count, runs,
                   fixes_applied, report, NotOfPatch>>

\* One iteration of: for i, row in enumerate(rows). row['space_name'] raises
\* KeyError behind a byte-order mark
FLC_ProcessRow ==
    /\ script = "fix-l-cards" /\ pc = "loop"
    /\ nread < Len(row_list)
    /\ nread' = nread + 1
    /\ row' = row_list[nread + 1]
    /\ IF SpaceNameKeyError(fs.SPACE_EFFECTS, "utf-8")
       THEN /\ Abort("KeyError")
            /\ UNCHANGED <<row_list, fixes_applied>>
       ELSE /\ row_list' = [row_list EXCEPT ![nread + 1] = FixedRow(row')]
            /\ fixes_applied' = FixesAfter(fixes_applied, row')
            /\ UNCHANGED <<pc, exit_status, exception>>
    /\ UNCHANGED <<fs, migrated_count, runs, report, NotOfPatch>>

\* Write fixed data, over the input
FLC_Write ==
    /\ script = "fix-l-cards" /\ pc = "loop"
    /\ nread = Len(row_list)
    /\ fs' = [fs EXCEPT !.SPACE_EFFECTS = Rewritten(fs.SPACE_EFFECTS, row_list)]
    /\ IF WritableRows(row_list) # row_list
       THEN Abort("ValueError")
       ELSE /\ pc' = "written"
            /\ UNCHANGED <<exit_status, exception>>
    /\ UNCHANGED <<loopVars, patchLocals, NotOfPatch>>

\* Summary: the line 'Total L card effects now auto'
FLC_Summary ==
    /\ script = "fix-l-cards" /\ pc = "written"
    /\ report' = [total_now_auto |->
                     fixes_applied.l_cards_auto
                     + fixes_applied.l_cards_empty_to_auto
                     + fixes_applied.l_cards_already_auto]
    /\ pc' = "exited"
    /\ exit_status' = 0
    /\ UNCHANGED <<fs, exception, loopVars, row_list, migrated_count, runs,
                   fixes_applied, NotOfPatch>>
-----------------------------------------------------------------------------
(***************************************************************************)
(* scripts/compare-migration.py                                            *)
(***************************************************************************)

\* key = (row['space_name'], row['visit_type'])
KeyOf(r) == <<r.space_name, r.visit_type>>

\* defaultdict(list) filled row by row: the keys in the order they are first
\* seen, each with its rows in file order
RECURSIVE GroupByKey(_, _, _)
GroupByKey(rs, i, d) ==
    IF i > Len(rs) THEN d
    ELSE LET key == KeyOf(rs[i])
             at == { k \in DOMAIN d : d[k].key = key }
         IN  GroupByKey(rs, i + 1,
                IF at = {}
                THEN Append(d, [key |-> key, value |-> <<rs[i]>>])
                ELSE LET k == CHOOSE k \in at : TRUE
                     IN  [d EXCEPT ![k].value = Append(@, rs[i])])

\* d.get(key, []) on a dictionary of lists
GetList(d, key) ==
    IF key \in DictKeys(d)
    THEN DictGet(d, key)
    ELSE <<>>

\* Tuples of texts in Python's order
KeyLess(a, b) ==
    \/ TextLess(a[1], b[1])
    \/ a[1] = b[1] /\ TextLess(a[2], b[2])

\* sorted(all_keys)
RECURSIVE SortedKeys(_)
SortedKeys(S) ==
    IF S = {} THEN <<>>
    ELSE LET m == CHOOSE x \in S : \A y \in S \ {x} : KeyLess(x, y)
         IN  <<m>> \o SortedKeys(S \ {m})

\* all_keys = set(code2026_effects.keys()) | set(code2027_effects.keys())
AllKeys == DictKeys(code2026_effects) \cup DictKeys(code2027_effects)

EndsWith(s, p) ==
    Len(p) <= Len(s) /\ Slice(s, Len(s) - Len(p) + 1, Len(s)) = p

\* s.split('_')[0]
FirstField(s) ==
    LET at == { i \in DOMAIN s : s[i] = "_" } IN
    IF at = {} THEN s
    ELSE Slice(s, 1, (CHOOSE i \in at : \A j \in at : i <= j) - 1)

\* s.split('_')[1], for a text with an underscore
SecondField(s) ==
    LET at == { i \in DOMAIN s : s[i] = "_" }
        first == CHOOSE i \in at : \A j \in at : i <= j
    IN  FirstField(Slice(s, first + 1, Len(s)))

\* An effect of the old snapshot that counts as a card effect
IsOldCardEffect(e) == EndsWith(e.effect_type, <<"_","c","a","r","d","s">>)

\* effect['effect_type'].split('_')[0].upper()
OldCardType(e) == Upper(FirstField(e.effect_type))

\* An effect of the new snapshot that counts as a card draw
IsNewCardDraw(e) ==
    /\ e.effect_type = <<"c","a","r","d","s">>
    /\ StartsWith(e.effect_action, <<"d","r","a","w","_">>)

\* action.split('_')[1].upper()
NewCardType(e) == Upper(SecondField(e.effect_action))

\* The items of a defaultdict(int) that counted these card types
CountsOf(types) ==
    { [key |-> ty, value |-> Cardinality({ i \in DOMAIN types : types[i] = ty })] :
        ty \in Range(types) }

OldCardCounts(old_effects) ==
    LET drawn == SelectSeq(old_effects, IsOldCardEffect)
    IN  CountsOf([i \in DOMAIN drawn |-> OldCardType(drawn[i])])

NewCardCounts(new_effects) ==
    LET drawn == SelectSeq(new_effects, IsNewCardDraw)
    IN  CountsOf([i \in DOMAIN drawn |-> NewCardType(drawn[i])])

\* CardCountsDiffer comparing only how many card effects there are
CardCountsDiffer_TotalsOnly(old_effects, new_effects) ==
    Len(SelectSeq(old_effects, IsOldCardEffect))
       # Len(SelectSeq(new_effects, IsNewCardDraw))

\* if old_card_counts != new_card_counts
CardCountsDiffer(old_effects, new_effects) ==
    OldCardCounts(old_effects) # NewCardCounts(new_effects)

\* The L draws of a key that are still manual
ManualLDraws(key, new_effects) ==
    LET manual(e) == /\ IsNewCardDraw(e)
                     /\ NewCardType(e) = <<"L">>
                     /\ e.trigger_type = <<"m","a","n","u","a","l">>
        found == SelectSeq(new_effects, manual)
    IN  [i \in DOMAIN found |->
            [space |-> key[1], visit |-> key[2], effect |-> found[i]]]

OldCardTypes == <<<<"l","_","c","a","r","d","s">>, <<"e","_","c","a","r","d","s">>, <<"w","_","c","a","r","d","s">>, <<"b","_","c","a","r","d","s">>, <<"i","_","c","a","r","d","s">>>>

\* The entries one new effect adds to e_l_mismatches
MismatchesOf(key, e, old_effects) ==
    LET old_types == { old_effects[i].effect_type : i \in DOMAIN old_effects }
        card_type == NewCardType(e)
        other(old_card_type) ==
            /\ old_card_type \in old_types
            /\ Upper(FirstField(old_card_type)) # card_type
        others == SelectSeq(OldCardTypes, other)
    IN  IF /\ IsNewCardDraw(e)
           /\ (Lower(card_type) \o <<"_","c","a","r","d","s">>) \notin old_types
        THEN [i \in DOMAIN others |->
                [space |-> key[1], visit |-> key[2],
                 expected |-> Upper(FirstField(others[i])),
                 actual |-> card_type, effect |-> e]]
        ELSE <<>>

RECURSIVE Mismatches(_, _, _, _)
Mismatches(key, new_effects, i, old_effects) ==
    IF i > Len(new_effects) THEN <<>>
    ELSE MismatchesOf(key, new_effects[i], old_effects)
            \o Mismatches(key, new_effects, i + 1, old_effects)

\* None.startswith: a short row of the new snapshot that ends after 'cards'
NewEffectRaises(e) == e.effect_type = <<"c","a","r","d","s">> /\ e.effect_action = None

\* None.endswith: a short row of the old snapshot without an effect_type
OldEffectRaises(e) == e.effect_type = None

\* The exception reading a snapshot raises, "" when none
SnapshotException(file) ==
    IF ~file.exists THEN "FileNotFoundError"
    ELSE IF file.rows # <<>> /\ SpaceNameKeyError(file, "utf-8") THEN "KeyError"
    ELSE ""

\* The number the summary prints as 'Spaces with card type count mismatches'
SummaryMismatches ==
    Cardinality({ k \in AllKeys :
        /\ GetList(code2026_effects, k) # <<>>
        /\ GetList(code2027_effects, k) # <<>>
        /\ Len(SelectSeq(GetList(code2026_effects, k), IsOldCardEffect))
              # Len(SelectSeq(GetList(code2027_effects, k), IsNewCardDraw)) })

\* Read code2026 data
CMP_Read2026 ==
    /\ script = "compare-migration" /\ pc = "start"
    /\ LET raised == SnapshotException(fs.SPACE_EFFECTS_2026) IN
       IF raised # ""
       THEN /\ Abort(raised)
            /\ UNCHANGED code2026_effects
       ELSE /\ code2026_effects' = GroupByKey(fs.SPACE_EFFECTS_2026.rows, 1, <<>>)
            /\ pc' = "read2027"
            /\ UNCHANGED <<exit_status, exception>>
    /\ UNCHANGED <<nread, report, code2027_effects, NotOfCompare>>

\* Read code2027 data; the issue lists start empty
CMP_Read2027 ==
    /\ script = "compare-migration" /\ pc = "read2027"
    /\ LET raised == SnapshotException(fs.SPACE_EFFECTS) IN
       IF raised # ""
       THEN /\ Abort(raised)
            /\ UNCHANGED <<code2027_effects, report>>
       ELSE /\ code2027_effects' = GroupByKey(fs.SPACE_EFFECTS.rows, 1, <<>>)
            /\ report' = [l_cards_manual |-> <<>>, e_l_mismatches |-> <<>>,
                          listed |-> <<>>]
            /\ pc' = "check"
            /\ UNCHANGED <<exit_status, exception>>
    /\ UNCHANGED <<nread, code2026_effects, NotOfCompare>>

\* One iteration of: for key in sorted(all_keys) (Compare each space)
CMP_CheckKey ==
    /\ script = "compare-migration" /\ pc = "check"
    /\ nread < Cardinality(AllKeys)
    /\ nread' = nread + 1
    /\ LET key == SortedKeys(AllKeys)[nread + 1]
           old_effects == GetList(code2026_effects, key)
           new_effects == GetList(code2027_effects, key)
       IN  IF \E i \in DOMAIN new_effects : NewEffectRaises(new_effects[i])
           THEN /\ Abort("AttributeError")
                /\ UNCHANGED report
           ELSE /\ report' =
                      [report EXCEPT
                         !.l_cards_manual = @ \o ManualLDraws(key, new_effects),
                         !.e_l_mismatches =
                             @ \o Mismatches(key, new_effects, 1, old_effects)]
                /\ UNCHANGED <<pc, exit_status, exception>>
    /\ UNCHANGED <<cmpLocals, NotOfCompare>>

\* Print L cards that are manual; the detailed check starts
CMP_PrintManual ==
    /\ script = "compare-migration" /\ pc = "check"
    /\ nread = Cardinality(AllKeys)
    /\ pc' = "compare"
    /\ nread' = 0
    /\ UNCHANGED <<exit_status, exception, report, cmpLocals, NotOfCompare>>

\* One iteration of: for key in sorted(all_keys) (compare card counts)
CMP_CompareKey ==
    /\ script = "compare-migration" /\ pc = "compare"
    /\ nread < Cardinality(AllKeys)
    /\ nread' = nread + 1
    /\ LET key == SortedKeys(AllKeys)[nread + 1]
           old_effects == GetList(code2026_effects, key)
           new_effects == GetList(code2027_effects, key)
       IN  IF \/ \E i \in DOMAIN old_effects : OldEffectRaises(old_effects[i])
              \/ \E i \in DOMAIN new_effects : NewEffectRaises(new_effects[i])
           THEN /\ Abort("AttributeError")
                /\ UNCHANGED report
           ELSE /\ report' =
                      IF CardCountsDiffer(old_effects, new_effects)
                      THEN [report EXCEPT !.listed = Append(@, key)]
                      ELSE report
                /\ UNCHANGED <<pc, exit_status, exception>>
    /\ UNCHANGED <<cmpLocals, NotOfCompare>>

\* Summary
CMP_Summary ==
    /\ script = "compare-migration" /\ pc = "compare"
    /\ nread = Cardinality(AllKeys)
    /\ report' = [l_cards_manual |-> report.l_cards_manual,
                  e_l_mismatches |-> report.e_l_mismatches,
                  listed |-> report.listed,
                  need_conversion |-> Len(report.l_cards_manual),
                  count_mismatches |-> SummaryMismatches]
    /\ pc' = "exited"
    /\ exit_status' = 0
    /\ UNCHANGED <<exception, nread, cmpLocals, NotOfCompare>>
-----------------------------------------------------------------------------
(***************************************************************************)
(* convert_cards.py                                                        *)
(***************************************************************************)

AmountChars == DigitChars \cup {","}

\* re.search(r'\$([0-9,]+)', description): group 1 of the leftmost match,
\* Empty when there is none
DollarAmount(description) ==
    LET hits == { i \in DOMAIN description :
                    /\ description[i] = "$"
                    /\ i < Len(description)
                    /\ description[i + 1] \in AmountChars }
    IN  IF hits = {} THEN Empty
        ELSE LET i == CHOOSE i \in hits : \A j \in hits : i <= j
             IN  Slice(description, i + 1,
                       ClassRunEnd(description, i + 1, AmountChars))

\* amount and amount.isdigit(), for a cell that may be None
IsDigitCell(amount) == amount # None /\ IsDigitText(amount)

\* The cost a W card gets from its description
CostFromDescription(description) ==
    LET cost_str == Remove(DollarAmount(description), <<",">>) IN
    IF /\ \/ Contains(Lower(description), <<"c","o","s","t",":">>)
          \/ "$" \in Range(description)
       /\ IsDigitText(cost_str)
    THEN NaturalValue(cost_str, 0)
    ELSE 0

\* Determine cost based on card type
ColumnCost(r) ==
    IF r.card_type = <<"B">>
    THEN (IF IsDigitCell(r.loan_amount) THEN NaturalValue(r.loan_amount, 0) ELSE 0)
    ELSE IF r.card_type = <<"I">>
    THEN (IF IsDigitCell(r.investment_amount)
          THEN NaturalValue(r.investment_amount, 0) ELSE 0)
    ELSE IF r.card_type = <<"W">>
    THEN (IF IsDigitCell(r.work_cost) THEN NaturalValue(r.work_cost, 0)
          ELSE CostFromDescription(r.description))
    ELSE 0

\* Determine effects_on_play based on card type
EffectsOnPlay(card_type) ==
    IF card_type = <<"W">> THEN <<"A","p","p","l","y"," ","W","o","r","k">>
    ELSE IF card_type = <<"B">> THEN <<"A","p","p","l","y"," ","L","o","a","n">>
    ELSE IF card_type = <<"I">> THEN <<"A","p","p","l","y"," ","I","n","v","e","s","t","m","e","n","t">>
    ELSE IF card_type = <<"E">> THEN <<"A","p","p","l","y"," ","E","q","u","i","p","m","e","n","t">>
    ELSE IF card_type = <<"L">> THEN <<"A","p","p","l","y"," ","L","e","g","a","l">>
    ELSE <<"A","p","p","l","y"," ","E","f","f","e","c","t">>

\* Create converted card
SimpleCard(file, r) ==
    [card_id |-> CardId(file, r),
     card_name |-> r.card_name,
     card_type |-> r.card_type,
     description |-> r.description,
     effects_on_play |-> EffectsOnPlay(r.card_type),
     cost |-> ColumnCost(r),
     phase_restriction |-> r.phase_restriction]

\* The row as csv.DictWriter writes it: the cost as digits, None as ''
WrittenSimpleCard(card) ==
    [f \in DOMAIN card |->
        IF f = "cost" THEN NaturalText(card.cost) ELSE CsvCell(card[f])]

\* None.lower() on the description of a short W row, raised before the card
\* is made
CostRaises(r) ==
    /\ r.card_type = <<"W">>
    /\ ~IsDigitCell(r.work_cost)
    /\ r.description = None

\* card_name[:50] in the progress line, on a row that has only a card_id
PrintRaises(r) == r.card_name = None

\* with open(input_file, 'r', newline='', encoding='utf-8') as infile
CC_Open ==
    /\ script = "convert_cards" /\ pc = "start"
    /\ IF fs.cards_backup.exists
       THEN /\ pc' = "loop"
            /\ UNCHANGED <<exit_status, exception>>
       ELSE Abort("FileNotFoundError")
    /\ UNCHANGED <<fs, loopVars, converted_cards, NotOfCCE>>

\* One iteration of: for row in reader
CC_ProcessRow ==
    /\ script = "convert_cards" /\ pc = "loop"
    /\ nread < Len(fs.cards_backup.rows)
    /\ nread' = nread + 1
    /\ row' = fs.cards_backup.rows[nread + 1]
    /\ IF CostRaises(row')
       THEN /\ Abort("AttributeError")
            /\ UNCHANGED converted_cards
       ELSE /\ converted_cards' =
                  Append(converted_cards, SimpleCard(fs.cards_backup, row'))
            /\ IF PrintRaises(row')
               THEN Abort("TypeError")
               ELSE UNCHANGED <<pc, exit_status, exception>>
    /\ UNCHANGED <<fs, NotOfCCE>>

\* Write converted cards
CC_Write ==
    /\ script = "convert_cards" /\ pc = "loop"
    /\ nread = Len(fs.cards_backup.rows)
    /\ fs' = [fs EXCEPT !.CARDS_FULL =
                FileOf([i \in DOMAIN converted_cards |->
                           WrittenSimpleCard(converted_cards[i])])]
    /\ pc' = "written"
    /\ UNCHANGED <<exit_status, exception, loopVars, converted_cards, NotOfCCE>>

\* The counts by type are printed and the script ends, status 0
CC_Finish ==
    /\ script = "convert_cards" /\ pc = "written"
    /\ pc' = "exited"
    /\ exit_status' = 0
    /\ UNCHANGED <<fs, exception, loopVars, converted_cards, NotOfCCE>>
-----------------------------------------------------------------------------
(***************************************************************************)
(* Inputs: the rows the source files are drawn from                        *)
(***************************************************************************)

MaxRows == 1
MaxDiceRows == 1

DEST_A == <<"D","E","S","T","-","A">>
DEST_B == <<"D","E","S","T","-","B">>
ScenarioText == <<"D","i","d"," ","y","o","u"," ","p","a","s","s"," ","a","p","p","r","o","v","a","l","?"," ","Y","E","S"," ","-"," ","R","E","G","-","F","D","N","Y","-","P","L","A","N","-","E","X","A","M"," ","-"," ","N","O"," ","-"," ","S","p","a","c","e"," ","3">>
REG_FDNY_PLAN_EXAM == <<"R","E","G","-","F","D","N","Y","-","P","L","A","N","-","E","X","A","M">>

Cells(c1, c2, c3, c4, c5) == <<c1, c2, c3, c4, c5>>

SpaceRowPool ==
    { \* the tutorial space, tagged LOGIC, with a destination
      SpaceRow(START_QUICK_PLAY_GUIDE, First, LOGIC,
               Cells(DEST_A, Empty, Empty, Empty, Empty)),
      \* LOGIC rows: the scenario, prose only, unsorted duplicates, six names
      SpaceRow(PM_DECISION_CHECK, First, LOGIC,
               Cells(ScenarioText, Empty, Empty, Empty, Empty)),
      SpaceRow(PM_DECISION_CHECK, First, LOGIC,
               Cells(<<"D","i","d"," ","y","o","u"," ","p","a","s","s","?">>, Empty, Empty, Empty, Empty)),
      SpaceRow(PM_DECISION_CHECK, First, <<" ","L","O","G","I","C"," ">>,
               Cells(<<"Y","E","S"," ","-"," ","D","E","S","T","-","B"," ","-"," ","N","O"," ","-"," ","D","E","S","T","-","A">>, <<"D","E","S","T","-","B"," ","o","r"," ","F","D","N","Y">>, Empty,
                     Empty, Empty)),
      SpaceRow(PM_DECISION_CHECK, Subsequent, LOGIC,
               Cells(<<"Y","E","S"," ","-"," ","A","A","-","0","6"," ","-"," ","N","O"," ","-"," ","A","A","-","0","5">>, <<"Y","E","S"," ","-"," ","A","A","-","0","4"," ","-"," ","N","O"," ","-"," ","A","A","-","0","3">>,
                     <<"A","A","-","0","2"," ","o","r"," ","A","A","-","0","1">>, Empty, Empty)),
      \* destination counting: one, two (unsorted, padded), none valid
      SpaceRow(PM_DECISION_CHECK, First, Main,
               Cells(DEST_A, Empty, Empty, Empty, Empty)),
      SpaceRow(PM_DECISION_CHECK, Subsequent, Main,
               Cells(<<" ","D","E","S","T","-","B"," ">>, Empty, DEST_A, Empty, Empty)),
      SpaceRow(PM_DECISION_CHECK, First, Main,
               Cells(<<"F","D","N","Y">>, <<"5"," ","d","a","y","s">>, <<"Y","E","S">>, <<"S","p","a","c","e"," ","3">>, <<"A","-","1">>)),
      \* the subsequent visit that defers to the first visit
      SpaceRow(PM_DECISION_CHECK, Subsequent, Main,
               Cells(<<"O","p","t","i","o","n"," ","f","r","o","m"," ","f","i","r","s","t"," ","v","i","s","i","t">>, DEST_A, Empty, Empty, Empty)),
      SpaceRow(PM_DECISION_CHECK, Subsequent, Main,
               Cells(<<"O","p","t","i","o","n"," ","f","r","o","m"," ","f","i","r","s","t"," ","v","i","s","i","t">>, Empty, Empty, Empty, Empty)),
      SpaceRow(PM_DECISION_CHECK, Subsequent, Main,
               Cells(<<"O","p","t","i","o","n"," ","f","r","o","m"," ","f","i","r","s","t"," ","v","i","s","i","t">>, <<"O","u","t","c","o","m","e"," ","f","r","o","m"," ","r","o","l","l","e","d"," ","d","i","c","e">>,
                     Empty, Empty, Empty)),
      \* the dice placeholder phrase
      SpaceRow(PM_DECISION_CHECK, First, Main,
               Cells(<<"O","u","t","c","o","m","e"," ","f","r","o","m"," ","r","o","l","l","e","d"," ","d","i","c","e">>, DEST_A, Empty, Empty, Empty)),
      \* a row with fewer cells than the header
      ShortSpaceRow(PM_DECISION_CHECK, First) }

\* A row of DiceRoll Info.csv as csv.reader yields it: a list of cells
DiceRow(name, category, visit, faces) == <<name, category, visit>> \o faces

DiceRowPool ==
    { DiceRow(PM_DECISION_CHECK, NextStep, First,
              <<Empty, DEST_A, Empty, DEST_B, Empty, Empty>>),
      DiceRow(PM_DECISION_CHECK, NextStep, First,
              <<Empty, Empty, Empty, Empty, Empty, Empty>>),
      DiceRow(PM_DECISION_CHECK, TimeOutcomes, First,
              <<<<"5"," ","d","a","y","s">>, <<"1","0"," ","d","a","y","s">>, <<"5"," ","d","a","y","s">>, <<"1","0"," ","d","a","y","s">>, Empty, Empty>>),
      DiceRow(<<" ","P","M","-","D","E","C","I","S","I","O","N","-","C","H","E","C","K">>, <<"T","i","m","e"," ","o","u","t","c","o","m","e","s"," ">>, <<" ","S","u","b","s","e","q","u","e","n","t"," ">>,
              <<<<" ","D","E","S","T","-","A"," ">>, <<"5"," ","d","a","y","s">>, Empty, Empty, Empty, Empty>>),
      DiceRow(PM_DECISION_CHECK, <<"L"," ","C","a","r","d","s">>, First,
              <<DEST_A, <<"D","r","a","w"," ","1">>, Empty, Empty, Empty, Empty>>),
      \* faces that are no space names beside one that is
      DiceRow(PM_DECISION_CHECK, NextStep, Subsequent,
              <<<<"5"," ","d","a","y","s">>, DEST_A, <<"r","o","l","l"," ","a","g","a","i","n">>, Empty, Empty, Empty>>),
      \* fewer than nine cells
      DiceRow(PM_DECISION_CHECK, NextStep, Subsequent, <<DEST_A>>) }

\* Rows of MOVEMENT.csv and DICE_OUTCOMES.csv handed to the validator
MaxMovementRows == 2
MaxOutcomeRows == 1

MovementRowPool ==
    { create_movement_row(PM_DECISION_CHECK, First, "dice", <<>>),
      create_movement_row(PM_DECISION_CHECK, First, "none", <<>>),
      create_movement_row(PM_DECISION_CHECK, First, "fixed", <<DEST_A>>),
      create_movement_row(PM_DECISION_CHECK, Subsequent, "choice", <<>>),
      create_movement_row(PM_DECISION_CHECK, Subsequent, "choice",
                          <<<<"D","i","d"," ","y","o","u"," ","p","a","s","s","?">>, <<"F","D","N","Y">>>>),
      create_movement_row(PM_DECISION_CHECK, Subsequent, "fixed",
                          <<<<"D","E","S","T","-","N","O","R","T","H">>>>) }

OutcomeRowPool ==
    { OutcomeRow(<<PM_DECISION_CHECK, First>>,
                 <<Empty, DEST_A, Empty, DEST_B, Empty, Empty>>),
      OutcomeRow(<<PM_DECISION_CHECK, Subsequent>>,
                 <<DEST_A, Empty, Empty, Empty, Empty, Empty>>) }


\* fixes_applied of fix-l-cards.py before the loop
NoFixes ==
    [e_l_bug_fixed |-> 0, l_cards_auto |-> 0,
     l_cards_already_auto |-> 0, l_cards_empty_to_auto |-> 0]

\* The state no script has touched yet
Idle ==
    /\ pc = "start"
    /\ exit_status = 0
    /\ exception = ""
    /\ dice_spaces = {}
    /\ dice_data = <<>>
    /\ nread = 0
    /\ row = NoRow
    /\ movements = <<>>
    /\ outcomes = <<>>
    /\ dice_outcomes = <<>>
    /\ errors = <<>>
    /\ warnings = <<>>
    /\ results = <<>>
    /\ candidate = Empty
    /\ accepted = FALSE
    /\ effects = <<>>
    /\ converted_cards = <<>>
    /\ code2026_effects = <<>> /\ code2027_effects = <<>>
    /\ row_list = <<>>
    /\ migrated_count = 0
    /\ runs = 0
    /\ fixes_applied = NoFixes
    /\ report = <<>>


\* Texts handed to is_valid_space_name: every text of at most MaxNameLen
\* characters over NameAlphabet, and the texts the rules name
MaxNameLen == 5
NameAlphabet == {"A", "S", "-", "5", "?", " "}

NamedTexts ==
    { START, FINISH, <<" ","S","T","A","R","T"," ">>, <<"S","T","A","R","T","S">>, <<"F","I","N","I","S","H","E","D">>, <<"F","D","N","Y">>, <<"D","O","B">>,
      YES, NO, <<"S","p","a","c","e"," ","3">>, <<"S","P","A","C","E","-","3">>, <<"X","-","3","D","A","Y","5">>, <<"A","B","C","-","2"," ","w","e","e","k","s">>,
      <<"A","-","2","W","E","E","K">>, <<"5","-","D","A","Y","S">>, DEST_A, <<" ","D","E","S","T","-","B","\t">>, <<"d","e","s","t","-","a">>, <<"D","E","S","T","-","?">>,
      REG_FDNY_PLAN_EXAM, PM_DECISION_CHECK, ScenarioText }

NamePool == SeqsUpTo(NameAlphabet, MaxNameLen) \cup NamedTexts

\* Rows of Spaces.csv as process_remaining_files.py reads them
MaxEffectRows == 1

EffectSourceRow(name, visit, cards, time, fee) ==
    [space_name |-> name, visit_type |-> visit,
     phase |-> SETUP, path |-> Main, requires_dice_roll |-> NoWord,
     Event |-> <<"E","v","e","n","t">>, Action |-> Empty, Outcome |-> Empty,
     Negotiate |-> NoWord,
     w_card |-> cards[1], b_card |-> cards[2], i_card |-> cards[3],
     l_card |-> cards[4], e_card |-> cards[5],
     Time |-> time, Fee |-> fee]

\* A row shorter than the header: the cells of EffectColumns from position
\* k on are None (k = 1: every cell after visit_type is None)
ShortEffectSourceRow(name, visit, cards, time, k) ==
    LET absent(j, v) == IF j >= k THEN None ELSE v
        early(v) == IF k = 1 THEN None ELSE v
    IN
    [space_name |-> name, visit_type |-> visit,
     phase |-> early(SETUP), path |-> early(Main),
     requires_dice_roll |-> early(NoWord),
     Event |-> early(<<"E","v","e","n","t">>), Action |-> early(Empty),
     Outcome |-> early(Empty), Negotiate |-> early(NoWord),
     w_card |-> absent(1, cards[1]), b_card |-> absent(2, cards[2]),
     i_card |-> absent(3, cards[3]), l_card |-> absent(4, cards[4]),
     e_card |-> absent(5, cards[5]),
     Time |-> absent(6, time), Fee |-> None]

Draw1 == <<"D","r","a","w"," ","1">>

EffectRowPool ==
    { EffectSourceRow(OWNER_FUND_INITIATION, First,
                      <<Empty, Draw1, Draw1, Empty, Empty>>, <<"1"," ","d","a","y">>, Empty),
      EffectSourceRow(OWNER_FUND_INITIATION, Subsequent,
                      <<Draw1, Empty, Empty, Draw1, Draw1>>, Empty, <<"0">>),
      EffectSourceRow(<<" ","O","W","N","E","R","-","F","U","N","D","-","I","N","I","T","I","A","T","I","O","N">>, First,
                      <<Empty, Draw1, Empty, Empty, Empty>>, <<"+","5">>, <<"0",".","0">>),
      EffectSourceRow(PM_DECISION_CHECK, First,
                      <<<<"D","r","a","w"," ","2">>, Draw1, Empty, <<"D","r","a","w"," ","1"," ","i","f"," ","y","o","u"," ","r","o","l","l"," ","a"," ","1">>, Empty>>,
                      <<"5"," ","d","a","y","s">>, <<"0","%">>),
      EffectSourceRow(PM_DECISION_CHECK, Subsequent,
                      <<<<" "," ">>, <<" ">>, Empty, <<"\t">>, Empty>>, <<"T","B","D">>, <<"1","0","%">>),
      EffectSourceRow(LEND_SCOPE_CHECK, First,
                      <<Empty, Empty, Empty, Draw1, <<" ","R","e","p","l","a","c","e"," ","1"," ">>>>,
                      <<" ","5","0"," ","D","a","y","s"," ">>, <<" ","0","%"," ">>),
      EffectSourceRow(LEND_SCOPE_CHECK, Subsequent,
                      <<Empty, Empty, Empty, Empty, Empty>>, <<"d","a","y","s">>, <<"$","5","0","0">>),
      EffectSourceRow(FINISH, First,
                      <<Empty, Empty, Empty, Empty, Empty>>, <<"5","-","1","0"," ","d","a","y","s">>, <<"0","0">>),
      EffectSourceRow(FINISH, Subsequent,
                      <<Empty, Empty, Empty, Empty, Empty>>, <<"-","3"," ","d","a","y","s">>, <<"1","%">>),
      EffectSourceRow(START, First,
                      <<Empty, Empty, Empty, Empty, Empty>>, <<"1","_","0">>, <<" ","0"," ">>),
      EffectSourceRow(START, Subsequent,
                      <<Empty, Empty, Empty, Empty, Empty>>, <<"1","d","a","y","s","2">>, Empty),
      EffectSourceRow(DEST_A, First,
                      <<Empty, Empty, Empty, Empty, Empty>>, <<"0","7"," ","d","a","y">>, Empty),
      EffectSourceRow(DEST_A, Subsequent,
                      <<Empty, Empty, Empty, Empty, Empty>>, <<"5"," ","w","e","e","k","s">>, <<"1","0","%">>),
      EffectSourceRow(DEST_B, First,
                      <<Empty, Empty, Empty, Empty, Empty>>, <<"d","a","3","y","s">>, <<"0"," ","%">>),
      EffectSourceRow(DEST_B, Subsequent,
                      <<Empty, Empty, Empty, Empty, Empty>>, <<"1"," ","d","a","y"," ","2">>, Empty),
      [EffectSourceRow(DEST_B, First,
                       <<Empty, Empty, Empty, Empty, Empty>>, <<"3"," ","d","a","y","s">>, Empty)
           EXCEPT !.Event = Empty],
      ShortEffectSourceRow(PM_DECISION_CHECK, First,
                           <<Empty, Empty, Empty, Empty, Empty>>, Empty, 1),
      ShortEffectSourceRow(PM_DECISION_CHECK, Subsequent,
                           <<Draw1, Empty, Empty, Draw1, Empty>>, <<"2"," ","d","a","y","s">>, 3),
      ShortEffectSourceRow(OWNER_FUND_INITIATION, First,
                           <<Empty, Draw1, Empty, Empty, Draw1>>, <<"2"," ","d","a","y","s">>, 6),
      ShortEffectSourceRow(OWNER_FUND_INITIATION, Subsequent,
                           <<Empty, Empty, Draw1, Empty, Empty>>, <<"2"," ","d","a","y","s">>, 7) }

\* Rows of the cards file as convert_cards_expanded.py reads them
MaxCardRows == 2

\* amounts: loan_amount, investment_amount, work_cost, money_cost
CardRow(id, type, description, dice_effect, amounts, money_effect, tick, time, discard) ==
    [card_id |-> id, card_name |-> <<"C","a","r","d">>, card_type |-> type,
     description |-> description, phase_restriction |-> <<"A","n","y">>,
     immediate_effect |-> <<"A","p","p","l","y"," ","E","f","f","e","c","t">>,
     duration |-> <<"I","m","m","e","d","i","a","t","e">>, duration_count |-> Empty,
     dice_effect |-> dice_effect, activation_timing |-> <<"I","m","m","e","d","i","a","t","e">>,
     loan_amount |-> amounts[1], loan_rate |-> Empty,
     investment_amount |-> amounts[2], work_cost |-> amounts[3],
     money_cost |-> amounts[4],
     money_effect |-> money_effect,
     tick_modifier |-> tick, time_effect |-> time,
     draw_cards |-> Empty, discard_cards |-> discard,
     target |-> <<"S","e","l","f">>, scope |-> <<"S","i","n","g","l","e">>,
     work_type_restriction |-> Empty]

\* A row shorter than the header: every cell after card_id is None
ShortCardRow(id) ==
    [f \in DOMAIN CardRow(id, Empty, Empty, Empty, <<Empty, Empty, Empty, Empty>>,
                          Empty, Empty, Empty, Empty) |->
        IF f = "card_id" THEN id ELSE None]

NoAmounts == <<Empty, Empty, Empty, Empty>>

CardRowPool ==
    { CardRow(<<"B","0","0","1">>, <<"B">>, <<"L","o","a","n">>, Empty,
              <<<<"5","0","0","0","0">>, Empty, Empty, Empty>>, Empty, Empty, Empty, Empty),
      CardRow(<<"B","0","0","2">>, <<"B">>, <<"L","o","a","n">>, Empty,
              <<<<"5",",","0","0","0">>, Empty, Empty, <<"1","0","0">>>>, Empty, <<"0">>, Empty, Empty),
      CardRow(<<"I","0","0","1">>, <<"I">>, <<"F","u","n","d">>, Empty,
              <<Empty, Empty, Empty, <<"a","b","c">>>>, Empty, Empty, <<"3">>, Empty),
      CardRow(<<"W","0","0","1">>, <<"W">>, <<"W","o","r","k">>, Empty,
              <<Empty, Empty, <<"a","b","c">>, Empty>>, <<"-","5","0","0">>, <<" ","4"," ">>, Empty, Empty),
      CardRow(<<"W","0","0","2">>, <<"W">>, <<"W","o","r","k">>, Empty,
              <<Empty, Empty, <<"2","0","0">>, <<"$","5">>>>, Empty, <<"-","3">>, <<"7">>, Empty),
      CardRow(<<"E","0","0","1">>, <<"E">>, <<"D","e","l","a","y">>, Empty,
              NoAmounts, Empty, <<"a","b","c">>, Empty, Empty),
      CardRow(<<"E","0","0","2">>, <<"E">>, <<"D","e","l","a","y">>, Empty,
              NoAmounts, Empty, Empty, <<"1",".","5">>, Empty),
      CardRow(<<"E","0","0","3">>, <<"E">>, <<"D","e","l","a","y">>, <<"S","k","i","p"," ","n","e","x","t"," ","t","u","r","n">>,
              NoAmounts, Empty, <<"2"," ","d","a","y","s">>, Empty, Empty),
      CardRow(<<"E","0","0","4">>, <<"E">>, <<"B","o","n","u","s">>, <<"E","x","t","r","a"," ","T","u","r","n">>,
              <<<<"7","0">>, Empty, Empty, <<"1","2">>>>, Empty, <<"1">>, Empty, Empty),
      CardRow(<<"E","0","0","5">>, <<"E">>, <<"D","i","s","c","a","r","d"," ","1"," ","E","x","p","e","d","i","t","o","r"," ","c","a","r","d">>, <<"D","r","a","w"," ","1">>,
              NoAmounts, Empty, Empty, Empty, <<"1">>),
      CardRow(<<"L","0","0","1">>, <<"L">>, <<"Y","o","u"," ","m","u","s","t"," ","d","i","s","c","a","r","d"," "," ","1","2"," ","l","a","w"," ","c","a","r","d","s"," ","n","o","w">>, Empty,
              NoAmounts, <<"1","0","0","0">>, Empty, Empty, <<"2">>),
      CardRow(<<"L","0","0","2">>, <<"L">>, <<"d","i","s","c","a","r","d"," ","o","n","e"," ","c","a","r","d">>, Empty,
              NoAmounts, Empty, Empty, Empty, <<"1">>),
      CardRow(<<"L","1">>, <<"L">>, <<"d","i","s","c","a","r","d"," ","2"," ","W","o","r","k"," ","c","a","r","d">>, Empty,
              NoAmounts, Empty, Empty, Empty, Empty),
      ShortCardRow(<<"E","0","0","6">>) }

\* Rows of SPACE_EFFECTS.csv as the scripts that patch or audit it read them
MaxPatchRows == 2

ShortEffectFileRow(space, visit, type, action) ==
    EffectFileRow(space, visit, type, action, None, None, None, None)

LongEffectFileRow(r, cells) ==
    [f \in DOMAIN r \cup {"rest"} |-> IF f = "rest" THEN cells ELSE r[f]]

Roll2Text == <<"D","r","a","w"," ","1"," ","i","f"," ","y","o","u"," ","r","o","l","l"," ","a"," ","2">>

EffectFilePool ==
    { EffectFileRow(PM_DECISION_CHECK, First, <<"c","a","r","d","s">>, <<"d","r","a","w","_","l">>,
                    Roll2Text, Empty, Roll2Text \o <<" ","L"," ","c","a","r","d","s">>, <<"m","a","n","u","a","l">>),
      EffectFileRow(PM_DECISION_CHECK, First, <<"c","a","r","d","s">>, <<"d","r","a","w","_","L">>,
                    Roll2Text, Empty, Roll2Text \o <<" ","L"," ","c","a","r","d","s">>, <<"a","u","t","o">>),
      EffectFileRow(PM_DECISION_CHECK, Subsequent, <<"c","a","r","d","s">>, <<"d","r","a","w","_","l">>,
                    <<"1">>, <<"d","i","c","e","_","r","o","l","l","_","2">>, <<"D","r","a","w"," ","L"," ","c","a","r","d"," ","o","n"," ","r","o","l","l"," ","o","f"," ","2">>, <<"a","u","t","o">>),
      EffectFileRow(LEND_SCOPE_CHECK, First, <<"c","a","r","d","s">>, <<"d","r","a","w","_","l">>,
                    Draw1, Always, <<"D","r","a","w"," ","1"," ","L"," ","c","a","r","d","s">>, <<"m","a","n","u","a","l">>),
      EffectFileRow(LEND_SCOPE_CHECK, First, <<"c","a","r","d","s">>, <<"d","r","a","w","_","e">>,
                    <<"D","r","a","w"," ","1"," ","i","f"," ","y","o","u"," ","r","o","l","l"," ","a"," ","3">>, Empty, <<"D","r","a","w"," ","1"," ","E"," ","c","a","r","d","s">>, <<"m","a","n","u","a","l">>),
      EffectFileRow(LEND_SCOPE_CHECK, Subsequent, <<"C","a","r","d","s">>, <<"d","r","a","w","_","l">>,
                    <<"i","f"," ","y","o","u"," ","r","o","l","l"," ","a"," ","4">>, Always, Empty, <<"m","a","n","u","a","l">>),
      EffectFileRow(DEST_A, First, <<"t","i","m","e">>, <<"a","d","d">>,
                    <<"5">>, Empty, <<"S","p","e","n","d"," ","5"," ","d","a","y","s"," ","i","f"," ","y","o","u"," ","r","o","l","l"," ","a"," ","1">>, <<"a","u","t","o">>),
      EffectFileRow(DEST_A, First, <<"c","a","r","d","s">>, <<"d","r","a","w","_","l">>,
                    <<"D","r","a","w"," ","2">>, Empty, <<"I","f"," ","Y","o","u"," ","R","o","l","l"," ","A"," ","1","2"," ","d","r","a","w">>, Empty),
      EffectFileRow(DEST_A, Subsequent, <<"c","a","r","d","s">>, <<"d","r","a","w","_","l">>,
                    Draw1, Empty, <<"D","r","a","w"," ","1"," ","L"," ","c","a","r","d","s">>, <<" ">>),
      EffectFileRow(DEST_B, First, <<"c","a","r","d","s">>, <<"d","r","a","w","_","l">>,
                    <<"i","f"," ","y","o","u"," ","r","o","l","l"," ","a"," ","2">>, Always, <<"i","f"," "," ","y","o","u"," ","r","o","l","l"," ","a"," ","6",","," ","i","f"," ","y","o","u"," ","r","o","l","l"," ","a"," ","5">>,
                    <<"M","a","n","u","a","l">>),
      ShortEffectFileRow(DEST_B, Subsequent, <<"c","a","r","d","s">>, <<"d","r","a","w","_","l">>),
      LongEffectFileRow(
          EffectFileRow(DEST_B, Subsequent, <<"c","a","r","d","s">>, <<"d","r","a","w","_","w">>,
                        Draw1, Empty, <<"D","r","a","w"," ","1">>, <<"m","a","n","u","a","l">>),
          <<<<" ","W"," ","c","a","r","d","s">>>>) }

\* Rows of the old snapshot (code2026): the card type is in the effect_type
OldSnapshotPool ==
    { EffectFileRow(PM_DECISION_CHECK, First, <<"l","_","c","a","r","d","s">>, <<"a","d","d">>,
                    Draw1, Empty, <<"D","r","a","w"," ","1">>, <<"m","a","n","u","a","l">>),
      EffectFileRow(PM_DECISION_CHECK, First, <<"e","_","c","a","r","d","s">>, <<"a","d","d">>,
                    Draw1, Empty, <<"D","r","a","w"," ","1">>, <<"m","a","n","u","a","l">>),
      EffectFileRow(DEST_A, First, <<"t","i","m","e">>, <<"a","d","d">>,
                    <<"5">>, Empty, <<"5"," ","d","a","y","s">>, <<"a","u","t","o">>),
      EffectFileRow(DEST_A, Subsequent, None, None, None, None, None, None) }

\* Rows of the new snapshot (code2027): the card type is in the effect_action
NewSnapshotPool ==
    { EffectFileRow(PM_DECISION_CHECK, First, <<"c","a","r","d","s">>, <<"d","r","a","w","_","l">>,
                    Draw1, Empty, <<"D","r","a","w"," ","1"," ","L"," ","c","a","r","d","s">>, <<"m","a","n","u","a","l">>),
      EffectFileRow(PM_DECISION_CHECK, First, <<"c","a","r","d","s">>, <<"d","r","a","w","_","E">>,
                    Draw1, Empty, <<"D","r","a","w"," ","1"," ","E"," ","c","a","r","d","s">>, <<"a","u","t","o">>),
      EffectFileRow(DEST_A, First, <<"c","a","r","d","s">>, <<"d","r","a","w","_","w">>,
                    Draw1, Empty, <<"D","r","a","w"," ","1"," ","W"," ","c","a","r","d","s">>, <<"m","a","n","u","a","l">>),
      EffectFileRow(LEND_SCOPE_CHECK, Subsequent, <<"t","i","m","e">>, <<"a","d","d">>,
                    <<"5">>, Empty, <<"5"," ","d","a","y","s">>, <<"a","u","t","o">>),
      EffectFileRow(PM_DECISION_CHECK, First, <<"c","a","r","d","s">>, None,
                    None, None, None, None) }

\* Rows of code2026_cards_backup.csv, the input of convert_cards.py
CostCard(id, type, description, amounts) ==
    CardRow(id, type, description, Empty, amounts, Empty, Empty, Empty, Empty)

BackupCardPool ==
    { CostCard(<<"B","0","0","1">>, <<"B">>, <<"L","o","a","n">>, <<<<"5","0","0","0","0">>, Empty, Empty, Empty>>),
      CostCard(<<"B","0","0","2">>, <<"B">>, <<"L","o","a","n"," ","o","f"," ","$","5",",","0","0","0">>, NoAmounts),
      CostCard(<<"I","0","0","1">>, <<"I">>, <<"I","n","v","e","s","t"," ","$","2","0">>, <<Empty, <<"1",".","5">>, Empty, Empty>>),
      CostCard(<<"I","0","0","2">>, <<"I">>, <<"F","u","n","d">>, <<Empty, <<"3","0","0">>, Empty, Empty>>),
      CostCard(<<"W","0","0","1">>, <<"W">>, <<"C","o","s","t",":"," ","$","1",",","5","0","0"," ","n","o","w">>, NoAmounts),
      CostCard(<<"W","0","0","2">>, <<"W">>, <<"P","a","y"," ","$","5"," ","o","r"," ","$","7">>, <<Empty, Empty, <<"2","0","0">>, Empty>>),
      CostCard(<<"W","0","0","3">>, <<"W">>, <<"c","o","s","t",":"," ","1","0","0"," ","o","r"," ","$",",">>, <<Empty, Empty, <<"a","b","c">>, Empty>>),
      CostCard(<<"E","0","0","1">>, <<"E">>, <<"S","a","v","e"," ","$","4","0">>, <<<<"7">>, <<"8">>, <<"9">>, Empty>>),
      [ShortCardRow(<<"W","0","0","4">>) EXCEPT !.card_name = <<"C","a","r","d">>, !.card_type = <<"W">>],
      ShortCardRow(<<"W","0","0","5">>) }
-----------------------------------------------------------------------------
(***************************************************************************)
(* Specifications: one per script                                          *)
(***************************************************************************)

\* process_game_data.py on any Spaces.csv and DiceRoll Info.csv
InitMovement ==
    /\ script = "process_game_data"
    /\ \E spaces \in SourceFilesOver(SpaceRowPool, MaxRows),
          dice \in SourceFilesOver(DiceRowPool, MaxDiceRows) :
          fs = Files(spaces, dice, AbsentFile, AbsentFile)
    /\ Idle

NextMovement ==
    \/ PGD_LoadDice
    \/ PGD_OpenSpaces
    \/ PGD_ProcessRow
    \/ PGD_WriteMovement
    \/ PGD_Finish

SpecMovement == InitMovement /\ [][NextMovement]_vars

\* fix_all_movements.py on any Spaces.csv and DiceRoll Info.csv
InitFixAll ==
    /\ script = "fix_all_movements"
    /\ \E spaces \in SourceFilesOver(SpaceRowPool, MaxRows),
          dice \in SourceFilesOver(DiceRowPool, MaxDiceRows) :
          fs = Files(spaces, dice, AbsentFile, AbsentFile)
    /\ Idle

NextFixAll ==
    \/ FIX_LoadDice
    \/ FIX_OpenSpaces
    \/ FIX_ProcessRow
    \/ FIX_WriteMovement
    \/ FIX_DiceOutcomes
    \/ FIX_Finish

SpecFixAll == InitFixAll /\ [][NextFixAll]_vars

\* Either validator, on any MOVEMENT.csv and DICE_OUTCOMES.csv
InitValidate ==
    /\ \/ /\ script = "validate_movement_data"
          /\ \E movement \in FilesOver(MovementRowPool, MaxMovementRows),
                dice_out \in {AbsentFile, FileOf(<<>>)} :
                fs = Files(AbsentFile, AbsentFile, movement, dice_out)
       \/ /\ script = "validate_data"
          /\ fs = Files(AbsentFile, AbsentFile, AbsentFile, AbsentFile)
    /\ Idle

NextValidate ==
    \/ VMD_Load
    \/ VMD_CheckItem
    \/ VMD_Report
    \/ VD_RunCheck
    \/ VD_Finish

SpecValidate == InitValidate /\ [][NextValidate]_vars


\* is_valid_space_name of process_game_data.py on any text
InitClassifier ==
    /\ script = "is_valid_space_name"
    /\ fs = Files(AbsentFile, AbsentFile, AbsentFile, AbsentFile)
    /\ pc = "start" /\ exit_status = 0 /\ exception = ""
    /\ dice_spaces = {} /\ dice_data = <<>> /\ nread = 0 /\ row = NoRow
    /\ movements = <<>> /\ outcomes = <<>> /\ dice_outcomes = <<>>
    /\ errors = <<>> /\ warnings = <<>> /\ results = <<>>
    /\ candidate \in NamePool
    /\ accepted = FALSE
    /\ effects = <<>> /\ converted_cards = <<>>
    /\ code2026_effects = <<>> /\ code2027_effects = <<>>
    /\ row_list = <<>> /\ migrated_count = 0 /\ runs = 0
    /\ fixes_applied = NoFixes /\ report = <<>>

NextClassifier == NAME_Classify

SpecClassifier == InitClassifier /\ [][NextClassifier]_vars

\* Either script that writes MOVEMENT.csv
InitTransform == InitMovement \/ InitFixAll

NextTransform == NextMovement \/ NextFixAll

SpecTransform == InitTransform /\ [][NextTransform]_vars

\* process_remaining_files.py on any Spaces.csv and DiceRoll Info.csv
InitEffects ==
    /\ script = "process_remaining_files"
    /\ \E spaces \in SourceFilesOver(EffectRowPool, MaxEffectRows),
          dice \in SourceFilesOver(DiceRowPool, MaxDiceRows) :
          fs = Files(spaces, dice, AbsentFile, AbsentFile)
    /\ Idle

NextEffects ==
    \/ PRF_GameConfig
    \/ PRF_SpaceContent
    \/ PRF_ProcessRow
    \/ PRF_WriteEffects
    \/ PRF_DiceEffects
    \/ PRF_Finish

SpecEffects == InitEffects /\ [][NextEffects]_vars

\* convert_cards_expanded.py on any cards file
InitCards ==
    /\ script = "convert_cards_expanded"
    /\ \E cards \in SourceFilesOver(CardRowPool, MaxCardRows) :
          fs = [Files(AbsentFile, AbsentFile, AbsentFile, AbsentFile)
                    EXCEPT !.Cards = cards]
    /\ Idle

NextCards ==
    \/ CCE_Open
    \/ CCE_ProcessRow
    \/ CCE_Write
    \/ CCE_Finish

SpecCards == InitCards /\ [][NextCards]_vars

\* migrate_dice_conditions.py on any SPACE_EFFECTS.csv, run up to MaxRuns times
InitMigrate ==
    /\ script = "migrate_dice_conditions"
    /\ \E table \in SourceFilesOver(EffectFilePool, MaxPatchRows) :
          fs = [Files(AbsentFile, AbsentFile, AbsentFile, AbsentFile)
                    EXCEPT !.SPACE_EFFECTS = table]
    /\ Idle

NextMigrate ==
    \/ MIG_Open
    \/ MIG_ProcessRow
    \/ MIG_Write
    \/ MIG_Finish
    \/ MIG_Rerun

SpecMigrate == InitMigrate /\ [][NextMigrate]_vars

\* fix-l-cards.py on any SPACE_EFFECTS.csv
InitFixL ==
    /\ script = "fix-l-cards"
    /\ \E table \in SourceFilesOver(EffectFilePool, MaxPatchRows) :
          fs = [Files(AbsentFile, AbsentFile, AbsentFile, AbsentFile)
                    EXCEPT !.SPACE_EFFECTS = table]
    /\ Idle

NextFixL ==
    \/ FLC_Backup
    \/ FLC_Read
    \/ FLC_ProcessRow
    \/ FLC_Write
    \/ FLC_Summary

SpecFixL == InitFixL /\ [][NextFixL]_vars

\* compare-migration.py on any two snapshots
InitCompare ==
    /\ script = "compare-migration"
    /\ \E old \in SourceFilesOver(OldSnapshotPool, MaxPatchRows),
          new \in FilesOver(NewSnapshotPool, MaxPatchRows) :
          fs = [Files(AbsentFile, AbsentFile, AbsentFile, AbsentFile)
                    EXCEPT !.SPACE_EFFECTS_2026 = old, !.SPACE_EFFECTS = new]
    /\ Idle

NextCompare ==
    \/ CMP_Read2026
    \/ CMP_Read2027
    \/ CMP_CheckKey
    \/ CMP_PrintManual
    \/ CMP_CompareKey
    \/ CMP_Summary

SpecCompare == InitCompare /\ [][NextCompare]_vars

\* process_game_data.py followed by validate_movement_data.py on its output
\* (DICE_OUTCOMES.csv, which process_game_data.py does not write, is absent
\* or holds no row),
\* beside is_valid_space_name of process_game_data.py on any text
InitExtractValidate ==
    \/ /\ script = "process_game_data"
       /\ \E spaces \in SourceFilesOver(SpaceRowPool, MaxRows),
             dice \in SourceFilesOver(DiceRowPool, MaxDiceRows),
             dice_out \in {AbsentFile, FileOf(<<>>)} :
             fs = Files(spaces, dice, AbsentFile, dice_out)
       /\ Idle
    \/ InitClassifier

NextExtractValidate ==
    \/ NextMovement
    \/ VMD_RunOnOutput
    \/ VMD_Load
    \/ VMD_CheckItem
    \/ VMD_Report
    \/ NAME_Classify

SpecExtractValidate == InitExtractValidate /\ [][NextExtractValidate]_vars

\* convert_cards.py on any code2026_cards_backup.csv
InitConvertCards ==
    /\ script = "convert_cards"
    /\ \E cards \in SourceFilesOver(BackupCardPool, MaxCardRows) :
          fs = [Files(AbsentFile, AbsentFile, AbsentFile, AbsentFile)
                    EXCEPT !.cards_backup = cards]
    /\ Idle

NextConvertCards ==
    \/ CC_Open
    \/ CC_ProcessRow
    \/ CC_Write
    \/ CC_Finish

SpecConvertCards == InitConvertCards /\ [][NextConvertCards]_vars
-----------------------------------------------------------------------------
(***************************************************************************)
(* Properties of process_game_data.py (SpecMovement)                       *)
(***************************************************************************)

\* Row i of Spaces.csv produced movements[i]: every row that does not raise
\* appends exactly one movement row, and a row that raises ends the run.
Processed == DOMAIN movements
SourceRow(i) == fs.Spaces.rows[i]

RowKey(r) == <<r.space_name, r.visit_type>>
ValidCells(r) == SelectSeq(get_all_destination_columns(r), is_valid_space_name)
NonEmpty(cells) == SelectSeq(cells, LAMBDA d : d # Empty)

\* The row passed the tutorial test and the LOGIC test
ReachesDiceTier(r) == ~IsTutorialSpace(r) /\ ~IsLogicPath(r)
\* ... and its key is not in dice_spaces
ReachesTextTiers(r) == ReachesDiceTier(r) /\ ~HasDiceMovement(r, dice_spaces)

\* C1 (as claimed): every movement row written to MOVEMENT.csv whose
\* movement_type is 'fixed' or 'choice' has at least one non-empty destination
\* and every non-empty destination passes is_valid_space_name.
C1_FixedChoiceHaveValidDestinations ==
    \A i \in DOMAIN fs.MOVEMENT.rows :
        LET m == fs.MOVEMENT.rows[i] IN
        m.movement_type \in {"fixed", "choice"} =>
            /\ NonEmpty(Destinations(m)) # <<>>
            /\ \A j \in 1..NumDestinations :
                  Destinations(m)[j] # Empty => is_valid_space_name(Destinations(m)[j])

\* C3 (as claimed): the tiers are tutorial space, LOGIC path, dice-table key,
\* a cell with both 'outcome' and 'dice', destination counting, and the first
\* tier whose condition holds alone determines the movement row.
C3_FiveTiersFirstMatchWins ==
    \A i \in Processed :
        LET r == SourceRow(i)
            Row(type, dests) ==
                create_movement_row(r.space_name, r.visit_type, type, dests)
        IN  movements[i] =
              IF IsTutorialSpace(r) THEN Row("none", <<>>)
              ELSE IF IsLogicPath(r)
              THEN Row("choice", extract_destinations_from_logic_conditions(r))
              ELSE IF HasDiceMovement(r, dice_spaces) THEN Row("dice", <<>>)
              ELSE IF HasDiceMagicText(get_all_destination_columns(r))
              THEN Row("dice", <<>>)
              ELSE Row(CountingType(ValidCells(r)), ValidCells(r))

\* C3 (amended): the tiers are tutorial space, LOGIC path, dice-table key, the
\* 'option from first visit' phrase, a cell with both 'outcome' and 'dice',
\* destination counting; each tier decides the movement row exactly when no
\* earlier tier's condition holds.
C3_SixTiersFirstMatchWins ==
    \A i \in Processed :
        LET r == SourceRow(i)
            m == movements[i]
            Row(type, dests) ==
                create_movement_row(r.space_name, r.visit_type, type, dests)
            cells == get_all_destination_columns(r)
        IN  /\ IsTutorialSpace(r) => m = Row("none", <<>>)
            /\ ~IsTutorialSpace(r) /\ IsLogicPath(r) =>
                  m = Row("choice", extract_destinations_from_logic_conditions(r))
            /\ ReachesDiceTier(r) /\ HasDiceMovement(r, dice_spaces) =>
                  m = Row("dice", <<>>)
            /\ ReachesTextTiers(r) /\ IsStatefulMovement(r) =>
                  m = Row(IF ValidCells(r) # <<>> THEN "choice" ELSE "none",
                          ValidCells(r))
            /\ ReachesTextTiers(r) /\ ~IsStatefulMovement(r)
                  /\ HasDiceMagicText(cells) =>
                  m = Row("dice", <<>>)
            /\ ReachesTextTiers(r) /\ ~IsStatefulMovement(r)
                  /\ ~HasDiceMagicText(cells) =>
                  m = Row(CountingType(ValidCells(r)), ValidCells(r))

\* A row with both the 'option from first visit' phrase and the dice
\* placeholder phrase has been resolved, and not as 'dice'.
C3_Witness ==
    \E i \in Processed :
        /\ ReachesTextTiers(SourceRow(i))
        /\ IsStatefulMovement(SourceRow(i))
        /\ HasDiceMagicText(get_all_destination_columns(SourceRow(i)))
        /\ movements[i].movement_type = "none"

\* A row of DiceRoll Info.csv for the key, of either movement category
DiceRowFor(d, key) ==
    /\ Len(d) >= MinKeyCells
    /\ <<Strip(d[1]), Strip(d[3])>> = key
    /\ Strip(d[2]) \in {NextStep, TimeOutcomes}

HasValidFace(d) == \E k \in 1..6 : is_valid_space_name(DiceRolls(d)[k])

\* C4 (as claimed): a key is 'dice' on the basis of the dice-roll table only
\* when the table has a 'Next Step' or 'Time outcomes' row for the key with
\* at least one face that is a valid space name.
C4_DiceOnlyWithValidFace ==
    \A i \in Processed :
        (ReachesDiceTier(SourceRow(i)) /\ HasDiceMovement(SourceRow(i), dice_spaces)) =>
            \E j \in DOMAIN fs.DiceRoll.rows :
                /\ DiceRowFor(fs.DiceRoll.rows[j], RowKey(SourceRow(i)))
                /\ HasValidFace(fs.DiceRoll.rows[j])

\* The table makes the key 'dice': a row of at least nine cells that is
\* 'Next Step' (whatever its faces), or 'Time outcomes' with a valid face
MakesDice(d, key) ==
    /\ Len(d) >= MinDiceRowLen
    /\ DiceRowFor(d, key)
    /\ Strip(d[2]) = NextStep \/ HasValidFace(d)

\* C4 (amended): a row that passed the tutorial and LOGIC tests is 'dice' on
\* the basis of the dice-roll table exactly when the table has, for its key, a
\* row of at least nine cells that is 'Next Step' (whatever its faces) or is
\* 'Time outcomes' with at least one face that is a valid space name.
C4_DiceByNextStepOrValidTimeFace ==
    /\ pc # "start" =>
          \A key \in dice_spaces :
              \E j \in DOMAIN fs.DiceRoll.rows : MakesDice(fs.DiceRoll.rows[j], key)
    /\ \A i \in Processed :
          LET r == SourceRow(i)
              made == \E j \in DOMAIN fs.DiceRoll.rows :
                          MakesDice(fs.DiceRoll.rows[j], RowKey(r))
          IN  ReachesDiceTier(r) =>
                /\ made => movements[i].movement_type = "dice"
                /\ ~made /\ ~HasDiceMagicText(get_all_destination_columns(r)) =>
                      movements[i].movement_type # "dice"

\* A row became 'dice' through a 'Next Step' row whose faces are all blank.
C4_Witness ==
    \E i \in Processed :
        /\ ReachesDiceTier(SourceRow(i))
        /\ movements[i].movement_type = "dice"
        /\ \E j \in DOMAIN fs.DiceRoll.rows :
              MakesDice(fs.DiceRoll.rows[j], RowKey(SourceRow(i)))
        /\ \A j \in DOMAIN fs.DiceRoll.rows : ~HasValidFace(fs.DiceRoll.rows[j])

\* C5 (as claimed): a LOGIC row that is not the tutorial space yields 'choice'
\* with exactly the extracted names, without duplicates and sorted; the
\* scenario cell alone yields exactly REG-FDNY-PLAN-EXAM.
C5_LogicDestinationsAreAllExtracted ==
    \A i \in Processed :
        LET r == SourceRow(i) IN
        (~IsTutorialSpace(r) /\ IsLogicPath(r)) =>
            /\ movements[i].movement_type = "choice"
            /\ NonEmpty(Destinations(movements[i]))
                  = extract_destinations_from_logic_conditions(r)
            /\ SpaceCells(r) = <<ScenarioText, Empty, Empty, Empty, Empty>> =>
                  NonEmpty(Destinations(movements[i])) = <<REG_FDNY_PLAN_EXAM>>

C7_NoRowRaises ==
    /\ exception # "AttributeError"
    /\ Len(movements) = nread

\* C10 (as claimed): when Spaces.csv or DiceRoll Info.csv is absent the run
\* aborts and MOVEMENT.csv is not written.
C10_AnyMissingInputIsFatal ==
    (~fs.Spaces.exists \/ ~fs.DiceRoll.exists) =>
        /\ ~fs.MOVEMENT.exists
        /\ pc = "exited" => exception = "FileNotFoundError" /\ exit_status # 0

\* C10 (amended): when Spaces.csv is absent the run aborts with
\* FileNotFoundError and MOVEMENT.csv is not written; an absent
\* DiceRoll Info.csv alone is not fatal: the dice table counts as empty, the
\* rows of Spaces.csv are processed and, unless a row raises, MOVEMENT.csv is
\* written with one movement row for each.
C10_MissingSpacesIsFatalMissingDiceIsNot ==
    /\ ~fs.Spaces.exists =>
          /\ ~fs.MOVEMENT.exists
          /\ pc \notin {"loop", "written"}
          /\ pc = "exited" => exception = "FileNotFoundError" /\ exit_status # 0
    /\ (fs.Spaces.exists /\ ~fs.DiceRoll.exists) =>
          /\ exception # "FileNotFoundError"
          /\ dice_spaces = {}
          /\ (pc = "exited" /\ exception = "") =>
                /\ exit_status = 0
                /\ fs.MOVEMENT.exists
                /\ Len(fs.MOVEMENT.rows) = Len(fs.Spaces.rows)

\* A run without DiceRoll Info.csv has ended after writing MOVEMENT.csv.
C10_Witness ==
    /\ pc = "exited"
    /\ ~fs.DiceRoll.exists
    /\ fs.MOVEMENT.exists
    /\ fs.MOVEMENT.rows # <<>>

-----------------------------------------------------------------------------
(***************************************************************************)
(* Properties of fix_all_movements.py (SpecFixAll)                         *)
(***************************************************************************)

\* C2 (as claimed): after both files are regenerated, every movement row of
\* type 'dice' has a dice outcome row with the same (space_name, visit_type).
C2_DiceMovementHasOutcomeRow ==
    (pc = "exited" /\ exception = "") =>
        \A i \in DOMAIN fs.MOVEMENT.rows :
            fs.MOVEMENT.rows[i].movement_type = "dice" =>
                \E j \in DOMAIN fs.DICE_OUTCOMES.rows :
                    /\ fs.DICE_OUTCOMES.rows[j].space_name
                          = fs.MOVEMENT.rows[i].space_name
                    /\ fs.DICE_OUTCOMES.rows[j].visit_type
                          = fs.MOVEMENT.rows[i].visit_type

-----------------------------------------------------------------------------
(***************************************************************************)
(* Properties of the validators (SpecValidate)                             *)
(***************************************************************************)

\* What the run detected: a recorded error or an uncaught exception
\* (validate_movement_data), a check that failed or raised (validate_data)
DetectedError ==
    IF script = "validate_movement_data"
    THEN errors # <<>> \/ exception # ""
    ELSE ~AllResults(results)

\* C8 (as claimed): either validator ends with a nonzero status exactly when
\* it detected an error.
C8_NonzeroStatusIffErrorDetected ==
    pc = "exited" => (exit_status # 0 <=> DetectedError)

\* C9 (as claimed): validate_movement_data records MISSING_DICE_OUTCOMES for
\* every row of MOVEMENT.csv of type 'dice' whose key has no row in
\* DICE_OUTCOMES.csv, also when several rows share the key.
C9_EveryDiceRowWithoutOutcomeIsReported ==
    (script = "validate_movement_data" /\ pc = "exited" /\ exception = "") =>
        \A i \in DOMAIN fs.MOVEMENT.rows :
            LET m == fs.MOVEMENT.rows[i] IN
            (/\ m.movement_type = "dice"
             /\ \A j \in DOMAIN fs.DICE_OUTCOMES.rows :
                   RowKey(fs.DICE_OUTCOMES.rows[j]) # RowKey(m)) =>
                \E k \in DOMAIN errors :
                    errors[k] = Issue(RowKey(m), "MISSING_DICE_OUTCOMES")


-----------------------------------------------------------------------------
(***************************************************************************)
(* Properties of is_valid_space_name (SpecClassifier)                      *)
(***************************************************************************)

\* C13: every text that is_valid_space_name of process_game_data.py accepts
\* matches ^[A-Z][A-Z0-9-]+$ once stripped, contains no '?', and has at
\* least five characters.
C13_AcceptedNamesAreWellFormed ==
    accepted = TRUE =>
        LET t == Strip(candidate) IN
        /\ Len(t) >= 2
        /\ t[1] \in UpperChars
        /\ \A i \in 2..Len(t) : t[i] \in UpperChars \cup DigitChars \cup {"-"}
        /\ "?" \notin Range(t)
        /\ Len(t) >= 5

\* A text of exactly five characters has been accepted.
C13_Witness ==
    /\ accepted = TRUE
    /\ Len(Strip(candidate)) = 5
    /\ "-" \in Range(candidate)

\* C14: is_valid_space_name rejects every text without a hyphen other than
\* START and FINISH (surrounding whitespace aside), and accepts both.
C14_NoHyphenOnlySentinels ==
    /\ (accepted = TRUE /\ "-" \notin Range(candidate)) =>
          Strip(candidate) \in {START, FINISH}
    /\ (pc = "exited" /\ candidate \in {START, FINISH}) => accepted = TRUE

\* A sentinel without a hyphen has been accepted.
C14_Witness ==
    \/ candidate = START /\ accepted = TRUE
    \/ candidate = FINISH /\ accepted = TRUE

-----------------------------------------------------------------------------
(***************************************************************************)
(* More properties of process_game_data.py (SpecMovement)                  *)
(***************************************************************************)

\* The row matched none of the tiers before destination counting
ReachesCounting(r) ==
    /\ ReachesTextTiers(r)
    /\ ~IsStatefulMovement(r)
    /\ ~HasDiceMagicText(get_all_destination_columns(r))

\* C17: a row that matches no earlier tier is 'none' with zero valid cells,
\* 'fixed' with exactly one and 'choice' with two or more, and its
\* destinations are the valid cells in their column order.
C17_CountingByValidCells ==
    \A i \in Processed :
        LET r == SourceRow(i)
            n == Cardinality({ j \in 1..NumDestinations :
                                 is_valid_space_name(SpaceCells(r)[j]) })
        IN  ReachesCounting(r) =>
              /\ n = 0 => movements[i].movement_type = "none"
              /\ n = 1 => movements[i].movement_type = "fixed"
              /\ n >= 2 => movements[i].movement_type = "choice"
              /\ Len(NonEmpty(Destinations(movements[i]))) = n
              /\ \A k \in 1..n :
                    \E j \in 1..NumDestinations :
                        /\ Destinations(movements[i])[k] = Strip(SpaceCells(r)[j])
                        /\ is_valid_space_name(SpaceCells(r)[j])
                        /\ Cardinality({ h \in 1..j :
                               is_valid_space_name(SpaceCells(r)[h]) }) = k

\* A row with two valid cells, not in sorted order, has been counted
\* as 'choice' with the cells in column order.
C17_Witness ==
    \E i \in Processed :
        /\ ReachesCounting(SourceRow(i))
        /\ movements[i].movement_type = "choice"
        /\ movements[i].destination_1 = DEST_B
        /\ movements[i].destination_2 = DEST_A

-----------------------------------------------------------------------------
(***************************************************************************)
(* Properties of both scripts that write MOVEMENT.csv (SpecTransform)      *)
(***************************************************************************)

AllEmpty(cells) == \A j \in DOMAIN cells : cells[j] = Empty

\* C16: every movement row of type 'dice' has its five destinations empty,
\* in the rows process_game_data.py and fix_all_movements.py collect and in
\* the MOVEMENT.csv each of them writes.
C16_DiceRowsHaveNoDestinations ==
    /\ \A i \in DOMAIN movements :
          movements[i].movement_type = "dice" => AllEmpty(Destinations(movements[i]))
    /\ \A i \in DOMAIN fs.MOVEMENT.rows :
          fs.MOVEMENT.rows[i].movement_type = "dice" =>
              AllEmpty(Destinations(fs.MOVEMENT.rows[i]))

\* fix_all_movements.py has written a 'dice' row for a source row that has
\* a valid destination cell.
C16_Witness ==
    /\ script = "fix_all_movements"
    /\ \E i \in DOMAIN fs.MOVEMENT.rows :
          /\ fs.MOVEMENT.rows[i].movement_type = "dice"
          /\ SelectSeq(get_all_destination_columns(fs.Spaces.rows[i]),
                       FixAll_is_valid_space_name) # <<>>

-----------------------------------------------------------------------------
(***************************************************************************)
(* More properties of fix_all_movements.py (SpecFixAll)                    *)
(***************************************************************************)

Rolls(o) == <<o.roll_1, o.roll_2, o.roll_3, o.roll_4, o.roll_5, o.roll_6>>

\* A row of DiceRoll Info.csv that load_source_dice_data files under
\* 'Next Step', and the key it files it under
IsNextStepRow(d) == Len(d) >= MinKeyCells /\ Strip(d[2]) = NextStep
FixKey(d) == <<Strip(d[1]), Strip(d[3])>>

\* What the claim expects in DICE_OUTCOMES.csv for the row d
ExpectedRolls(d) ==
    [i \in 1..6 |-> IF FixAll_is_valid_space_name(DiceRolls(d)[i])
                    THEN DiceRolls(d)[i] ELSE Empty]

OutcomeRowsFor(key) ==
    { j \in DOMAIN fs.DICE_OUTCOMES.rows : RowKey(fs.DICE_OUTCOMES.rows[j]) = key }

MovementRowsFor(key) ==
    { j \in DOMAIN fs.MOVEMENT.rows : RowKey(fs.MOVEMENT.rows[j]) = key }

FixAllDone == script = "fix_all_movements" /\ pc = "exited" /\ exception = ""

IsLastNextStepRow(j) ==
    /\ IsNextStepRow(fs.DiceRoll.rows[j])
    /\ \A h \in DOMAIN fs.DiceRoll.rows :
          (h > j /\ IsNextStepRow(fs.DiceRoll.rows[h])) =>
              FixKey(fs.DiceRoll.rows[h]) # FixKey(fs.DiceRoll.rows[j])

-----------------------------------------------------------------------------
(***************************************************************************)
(* The byte-order mark (SpecTransform)                                     *)
(***************************************************************************)

\* C12 (as claimed): a byte-order mark in front of the first header of
\* Spaces.csv or DiceRoll Info.csv changes nothing: the key lookups by
\* 'space_name' succeed and every row read is resolved as it is without the
\* mark.
C12_BomIsTolerated ==
    (fs.Spaces.bom \/ fs.DiceRoll.bom) =>
        /\ exception # "KeyError"
        /\ (nread > 0 /\ exception = "") => Len(movements) = nread

\* The rows of Spaces.csv process_space_effects has read so far
EffectRowsRead == SubSeq(fs.Spaces.rows, 1, nread)

\* A cell that is present and holds something other than whitespace
NonBlank(v) == v # None /\ Strip(v) # Empty

SameKey(a, b) == a.space_name = b.space_name /\ a.visit_type = b.visit_type

EffectsOfType(type) == SelectSeq(effects, LAMBDA e : e.effect_type = type)

\* How many collected effects of a type and action carry the key and the value
CountEffects(type, action, r, value) ==
    Cardinality({ k \in DOMAIN effects :
                    /\ effects[k].effect_type = type
                    /\ effects[k].effect_action = action
                    /\ SameKey(effects[k], r)
                    /\ effects[k].effect_value = value })

AutoPairs ==
    { <<OWNER_FUND_INITIATION, "B">>,
      <<OWNER_FUND_INITIATION, "I">>,
      <<PM_DECISION_CHECK, "L">> }

CardLetterOf(e) ==
    LET c == CHOOSE c \in Range(CardTypes) : c.action = e.effect_action IN c.letter

\* C18: the card-draw effects process_space_effects collects are, one for
\* one, the card-type cells of the rows read that are non-empty (hold
\* something other than whitespace): as many effects as such cells, each cell
\* matched by an effect of its letter, key and stripped value; the
\* trigger_type of a card-draw effect is 'auto' exactly for the pairs
\* (OWNER-FUND-INITIATION, B), (OWNER-FUND-INITIATION, I) and
\* (PM-DECISION-CHECK, L), and 'manual' otherwise.
C18_OneCardEffectPerCell ==
    LET rows == EffectRowsRead
        cells == { <<i, c>> \in (DOMAIN rows) \X (DOMAIN CardTypes) :
                      NonBlank(rows[i][CardTypes[c].col]) }
    IN
    /\ Len(EffectsOfType(<<"c","a","r","d","s">>)) = Cardinality(cells)
    /\ \A x \in cells :
          LET r == rows[x[1]]
              c == CardTypes[x[2]]
          IN  CountEffects(<<"c","a","r","d","s">>, c.action, r, Strip(r[c.col]))
                = Cardinality({ y \in cells :
                                  /\ y[2] = x[2]
                                  /\ SameKey(rows[y[1]], r)
                                  /\ Strip(rows[y[1]][c.col]) = Strip(r[c.col]) })
    /\ \A k \in DOMAIN effects :
          effects[k].effect_type = <<"c","a","r","d","s">> =>
              /\ effects[k].trigger_type \in {<<"a","u","t","o">>, <<"m","a","n","u","a","l">>}
              /\ effects[k].trigger_type = <<"a","u","t","o">>
                    <=> <<effects[k].space_name, CardLetterOf(effects[k])>> \in AutoPairs

\* A finished run whose row gave an automatic and a manual card draw and
\* left a card-type cell empty
C18_Witness ==
    /\ script = "process_remaining_files" /\ pc = "exited" /\ exit_status = 0
    /\ fs.SPACE_EFFECTS.exists
    /\ \E k \in DOMAIN effects :
          effects[k].effect_type = <<"c","a","r","d","s">> /\ effects[k].trigger_type = <<"a","u","t","o">>
    /\ \E k \in DOMAIN effects :
          effects[k].effect_type = <<"c","a","r","d","s">> /\ effects[k].trigger_type = <<"m","a","n","u","a","l">>
    /\ \E i \in DOMAIN EffectRowsRead : EffectRowsRead[i].i_card = Empty

FeeSentinels == { Empty, <<"0">>, <<"0", "%">> }

ChargesFee(r) == r.Fee # None /\ Strip(r.Fee) \notin FeeSentinels

\* C19: the fee effects process_space_effects collects are, one for one, the
\* rows read whose Fee cell, stripped, is non-empty and neither '0' nor '0%',
\* each with the stripped cell as effect_value; a row whose Fee cell is '0%'
\* adds none, a row whose Fee cell is '10%' adds exactly one with
\* effect_value '10%'.
C19_OneFeeEffectPerChargingRow ==
    LET rows == EffectRowsRead
        charging == { i \in DOMAIN rows : ChargesFee(rows[i]) }
    IN
    /\ Len(EffectsOfType(<<"f","e","e">>)) = Cardinality(charging)
    /\ \A i \in charging :
          CountEffects(<<"f","e","e">>, <<"d","e","d","u","c","t">>, rows[i], Strip(rows[i].Fee))
            = Cardinality({ j \in charging :
                              /\ SameKey(rows[j], rows[i])
                              /\ Strip(rows[j].Fee) = Strip(rows[i].Fee) })
    /\ \A i \in DOMAIN rows :
          /\ rows[i].Fee = <<"0","%">> => i \notin charging
          /\ rows[i].Fee = <<"1","0","%">> =>
                /\ i \in charging
                /\ CountEffects(<<"f","e","e">>, <<"d","e","d","u","c","t">>, rows[i], <<"1","0","%">>) >= 1

\* A finished run whose row had the Fee cell '10%' and gave the fee effect
C19_Witness ==
    /\ script = "process_remaining_files" /\ pc = "exited" /\ exit_status = 0
    /\ fs.SPACE_EFFECTS.exists
    /\ \E i \in DOMAIN EffectRowsRead : EffectRowsRead[i].Fee = <<"1","0","%">>
    /\ \E k \in DOMAIN effects :
          effects[k].effect_type = <<"f","e","e">> /\ effects[k].effect_value = <<"1","0","%">>

\* What is left of a Time cell once the unit words and the surrounding
\* whitespace are removed
TimeRemainder(v) ==
    Strip(Remove(Remove(Lower(Strip(v)), <<"d","a","y","s">>), <<"d","a","y">>))

CountsTime(r) == r.Time # None /\ IntSyntax(TimeRemainder(r.Time))

\* C20: the time effects process_space_effects collects are, one for one, the
\* rows read whose Time cell, with the unit words 'days'/'day' and the
\* surrounding whitespace removed, parses as an integer, each with that
\* integer as effect_value; a row whose remainder is empty or not a number
\* adds no time effect, and no run ends in ValueError.
C20_OneTimeEffectPerNumericRow ==
    LET rows == EffectRowsRead
        timed == { i \in DOMAIN rows : CountsTime(rows[i]) }
    IN
    /\ Len(EffectsOfType(<<"t","i","m","e">>)) = Cardinality(timed)
    /\ \A i \in timed :
          CountEffects(<<"t","i","m","e">>, <<"a","d","d">>, rows[i], IntValue(TimeRemainder(rows[i].Time)))
            = Cardinality({ j \in timed :
                              /\ SameKey(rows[j], rows[i])
                              /\ IntValue(TimeRemainder(rows[j].Time))
                                   = IntValue(TimeRemainder(rows[i].Time)) })
    /\ exception # "ValueError"
    /\ \A i \in DOMAIN rows :
          (\A col \in Range(EffectColumns) : rows[i][col] # None)
              => ~(exception = "AttributeError" /\ i = nread)

\* A finished run whose row had the Time cell '5 days' and gave the time
\* effect 5
C20_Witness ==
    /\ script = "process_remaining_files" /\ pc = "exited" /\ exit_status = 0
    /\ fs.SPACE_EFFECTS.exists
    /\ \E i \in DOMAIN EffectRowsRead : EffectRowsRead[i].Time = <<"5"," ","d","a","y","s">>
    /\ \E k \in DOMAIN effects :
          effects[k].effect_type = <<"t","i","m","e">> /\ effects[k].effect_value = 5

-----------------------------------------------------------------------------
(***************************************************************************)
(* Card conversion (SpecCards)                                             *)
(***************************************************************************)

\* Every row of the cards file has all its cells
CardRowsComplete ==
    \A i \in DOMAIN fs.Cards.rows :
        \A f \in DOMAIN fs.Cards.rows[i] : fs.Cards.rows[i][f] # None

\* C11 (as claimed): a non-numeric value where a number is expected is never
\* fatal: a run of convert_cards_expanded on a cards file whose rows have all
\* their cells, whatever text the tick_modifier, time_effect, loan_amount,
\* work_cost and money_cost cells hold, ends without an exception and has
\* written one record per card to CARDS_EXPANDED.csv.
C11_NonNumericIsNeverFatal ==
    (/\ script = "convert_cards_expanded"
     /\ pc = "exited"
     /\ fs.Cards.exists
     /\ CardRowsComplete)
        => /\ exception = ""
           /\ exit_status = 0
           /\ fs.CARDS_EXPANDED.exists
           /\ Len(fs.CARDS_EXPANDED.rows) = Len(fs.Cards.rows)

-----------------------------------------------------------------------------
(***************************************************************************)
(* The dice-condition migration (SpecMigrate)                              *)
(***************************************************************************)

\* Position i of a text starts 'if you roll a N', whatever the case
RollPhraseAt(v, i) ==
    /\ StartsWithAt(Lower(v), <<"i","f"," ","y","o","u"," ","r","o","l","l"," ","a"," ">>, i)
    /\ i + 14 <= Len(v)
    /\ v[i + 14] \in DigitChars

HasRollPhrase(v) == v # None /\ \E i \in DOMAIN v : RollPhraseAt(v, i)

\* The N of the first 'if you roll a N' of a text: all its digits
RollNumber(v) ==
    LET i == CHOOSE i \in DOMAIN v :
                 RollPhraseAt(v, i) /\ \A j \in 1..(i - 1) : ~RollPhraseAt(v, j)
        e == CHOOSE e \in (i + 14)..Len(v) :
                 /\ \A k \in (i + 14)..e : v[k] \in DigitChars
                 /\ e = Len(v) \/ v[e + 1] \notin DigitChars
    IN  SubSeq(v, i + 14, e)

\* An effect row the migration is to rewrite: a draw of L cards conditioned
\* on a die face in its effect_value or description
IsConditionalLDraw(r) ==
    /\ r.effect_type = <<"c","a","r","d","s">>
    /\ r.effect_action # None /\ Lower(r.effect_action) = <<"d","r","a","w","_","l">>
    /\ HasRollPhrase(r.effect_value) \/ HasRollPhrase(r.description)

ConditionNumber(r) ==
    IF HasRollPhrase(r.effect_value) THEN RollNumber(r.effect_value)
    ELSE RollNumber(r.description)

MigrateRunning == script = "migrate_dice_conditions" /\ pc = "loop"
MigrateWritten ==
    /\ script = "migrate_dice_conditions"
    /\ pc \in {"written", "exited"} /\ exception = ""

C28_MigrateIsIdempotent ==
    [][(script = "migrate_dice_conditions" /\ runs >= 2)
          => (fs' = fs /\ migrated_count' = 0)]_vars

\* A second run has ended on a file in which the first run rewrote the
\* DEST-A draw ("If You Roll A 12 draw") to the condition dice_roll_12
C28_Witness ==
    /\ script = "migrate_dice_conditions" /\ runs = 2
    /\ pc = "exited" /\ exit_status = 0 /\ migrated_count = 0
    /\ \E i \in DOMAIN fs.SPACE_EFFECTS.rows :
          /\ fs.SPACE_EFFECTS.rows[i].condition = <<"d","i","c","e","_","r","o","l","l","_","1","2">>
          /\ fs.SPACE_EFFECTS.rows[i].effect_value = <<"1">>

\* fix-l-cards.py has written the file and printed its summary
FixLDone == script = "fix-l-cards" /\ pc = "exited" /\ exit_status = 0

\* The written rows that are L-card draws with trigger_type 'auto'
WrittenAutoLDraws ==
    { i \in DOMAIN fs.SPACE_EFFECTS.rows :
        LET w == fs.SPACE_EFFECTS.rows[i] IN
        /\ w.effect_type = <<"c","a","r","d","s">>
        /\ w.effect_action = <<"d","r","a","w","_","l">>
        /\ w.trigger_type = <<"a","u","t","o">> }

\* C25: fix-l-cards.py changes trigger_type only on rows that are L-card
\* draws in the file it writes: a row written with an effect_action other
\* than 'draw_l' keeps the trigger_type of the input (kept in the backup),
\* and the printed 'Total L card effects now auto' is the number of written
\* rows with effect_type 'cards', effect_action 'draw_l', trigger_type 'auto'.
C25_TriggerChangesOnlyOnWrittenLDraws ==
    FixLDone =>
       /\ \A i \in DOMAIN fs.SPACE_EFFECTS.rows :
             fs.SPACE_EFFECTS.rows[i].effect_action # <<"d","r","a","w","_","l">>
                => fs.SPACE_EFFECTS.rows[i].trigger_type
                      = CsvCell(fs.SPACE_EFFECTS_backup.rows[i].trigger_type)
       /\ report.total_now_auto = Cardinality(WrittenAutoLDraws)

\* compare-migration.py has printed its summary
CompareDone == script = "compare-migration" /\ pc = "exited" /\ exit_status = 0

\* The keys that occur in a snapshot file
KeysIn(file) == { KeyOf(file.rows[i]) : i \in DOMAIN file.rows }

\* The rows of a snapshot file, under a key, that draw cards of a type
OldDrawsOf(key, ty) ==
    { i \in DOMAIN fs.SPACE_EFFECTS_2026.rows :
        LET e == fs.SPACE_EFFECTS_2026.rows[i] IN
        KeyOf(e) = key /\ IsOldCardEffect(e) /\ OldCardType(e) = ty }

NewDrawsOf(key, ty) ==
    { i \in DOMAIN fs.SPACE_EFFECTS.rows :
        LET e == fs.SPACE_EFFECTS.rows[i] IN
        KeyOf(e) = key /\ IsNewCardDraw(e) /\ NewCardType(e) = ty }

\* The card types the model's snapshots can name
AuditCardTypes == {<<"L">>, <<"E">>, <<"W">>, <<"B">>, <<"I">>}

ListedKeys == { report.listed[k] : k \in DOMAIN report.listed }

\* C22: the auditor lists a (space_name, visit_type) key in its card-type
\* comparison exactly when, for some card type, the number of card-draw
\* effects of that type under the key differs between the two snapshots
\* (keys of only one snapshot included), and no step of it changes a file.
C22_ListsExactlyTheDifferingKeys ==
    /\ [](CompareDone =>
            /\ ListedKeys \subseteq
                  KeysIn(fs.SPACE_EFFECTS_2026) \cup KeysIn(fs.SPACE_EFFECTS)
            /\ \A key \in KeysIn(fs.SPACE_EFFECTS_2026) \cup KeysIn(fs.SPACE_EFFECTS) :
                  key \in ListedKeys
                     <=> \E ty \in AuditCardTypes :
                            Cardinality(OldDrawsOf(key, ty))
                               # Cardinality(NewDrawsOf(key, ty)))
    /\ [][script = "compare-migration" => fs' = fs]_vars

\* The summary has been printed after the listing named DEST-A, First, a
\* key of the new snapshot only, and left out PM-DECISION-CHECK, First,
\* which draws one L card in both snapshots
C22_Witness ==
    /\ CompareDone
    /\ <<DEST_A, First>> \in ListedKeys
    /\ <<DEST_A, First>> \notin KeysIn(fs.SPACE_EFFECTS_2026)
    /\ <<PM_DECISION_CHECK, First>> \notin ListedKeys
    /\ Cardinality(OldDrawsOf(<<PM_DECISION_CHECK, First>>, <<"L">>)) = 1
    /\ Cardinality(NewDrawsOf(<<PM_DECISION_CHECK, First>>, <<"L">>)) = 1

\* C30: the number printed as 'Spaces with card type count mismatches' is
\* the number of keys the detailed comparison listed.
C30_SummaryCountsTheListedKeys ==
    CompareDone => report.count_mismatches = Len(report.listed)

\* C26: every identifier extract_destinations_from_logic_conditions extracts
\* for a LOGIC row is a destination of the movement record made for the row,
\* however many identifiers the five condition cells hold.
C26_NoExtractedIdentifierIsDropped ==
    \A i \in Processed :
        LET r == SourceRow(i) IN
        (~IsTutorialSpace(r) /\ IsLogicPath(r)) =>
            Range(extract_destinations_from_logic_conditions(r))
               \subseteq Range(Destinations(movements[i]))

\* The non-empty destinations of the rows of MOVEMENT.csv
WrittenDestinations ==
    UNION { Range(NonEmptyDestinations(fs.MOVEMENT.rows[i])) :
              i \in DOMAIN fs.MOVEMENT.rows }

DestinationIssues == {"INVALID_DESTINATION", "QUESTION_IN_DESTINATION"}

\* C27: every text is_valid_space_name of process_game_data.py accepts is
\* accepted by is_valid_space_name of validate_movement_data.py, every
\* destination process_spaces_to_movement writes passes the validator's test
\* and has no question mark, and the validator run on that MOVEMENT.csv
\* records no INVALID_DESTINATION and no QUESTION_IN_DESTINATION error.
C27_ValidatorAcceptsExtractedNames ==
    /\ (script = "is_valid_space_name" /\ pc = "exited" /\ accepted)
          => Validate_is_valid_space_name(candidate)
    /\ script \in {"process_game_data", "validate_movement_data"}
          => /\ \A d \in WrittenDestinations :
                   Validate_is_valid_space_name(d) /\ "?" \notin Range(d)
             /\ \A k \in DOMAIN errors : errors[k].issue \notin DestinationIssues

\* The validator has examined a record of an extracted MOVEMENT.csv that
\* names a destination, and has ended without an error
C27_Witness ==
    /\ script = "validate_movement_data" /\ pc = "exited"
    /\ nread >= 1
    /\ WrittenDestinations # {}
    /\ errors = <<>> /\ exit_status = 0

\* The records the loader (load_csv_dict of validate_movement_data.py, keyed
\* by space_name and visit_type) gives for a written file
Reloaded(file) == DictValues(load_csv_dict(file))

\* A re-read record against the record written. Every re-read cell is a str;
\* the effect_value of a time effect is an int in the record written, and an
\* int equals no str
SameFieldValues(read, written) ==
    IF written.effect_type = <<"t","i","m","e">> THEN FALSE ELSE read = written

\* C23: re-reading the effects table process_remaining_files.py has written
\* with the loader yields the records that were written: as many, in the
\* same order, with the same field values.
C23_ReloadedEffectsEqualWritten ==
    (script = "process_remaining_files" /\ fs.SPACE_EFFECTS.exists)
        => /\ Len(Reloaded(fs.SPACE_EFFECTS)) = Len(effects)
           /\ \A i \in DOMAIN effects :
                 SameFieldValues(Reloaded(fs.SPACE_EFFECTS)[i], effects[i])

\* The structured cost column of a card's type
StructuredCost(r) ==
    IF r.card_type = <<"B">> THEN r.loan_amount
    ELSE IF r.card_type = <<"I">> THEN r.investment_amount
    ELSE r.work_cost

\* The description names a dollar amount
NamesDollarAmount(description) ==
    /\ description # None
    /\ IsDigitText(Remove(DollarAmount(description), <<",">>))

\* C24: in convert_cards, a card of type B, I or W whose structured cost
\* column (loan_amount, investment_amount, work_cost) is absent or not a
\* digit string gets as cost the dollar amount found in its description when
\* there is one, and every cost is a non-negative integer.
C24_CostFallsBackToDescription ==
    script = "convert_cards" =>
        \A i \in DOMAIN converted_cards :
            LET r == fs.cards_backup.rows[i] IN
            /\ converted_cards[i].cost \in Nat
            /\ ( /\ r.card_type \in {<<"B">>, <<"I">>, <<"W">>}
                 /\ ~IsDigitCell(StructuredCost(r))
                 /\ NamesDollarAmount(r.description) )
                  => converted_cards[i].cost
                        = NaturalValue(Remove(DollarAmount(r.description), <<",">>), 0)

\* C29: validate_content_data passes on the SPACE_CONTENT.csv that
\* process_space_content generated from the same Spaces.csv, whatever the
\* Spaces.csv, rows with an empty Event cell included.
C29_ContentCheckPassesOnGeneratedFile ==
    (script = "process_remaining_files" /\ fs.SPACE_CONTENT.exists)
        => validate_content_data(fs.Spaces, fs.SPACE_CONTENT)
=============================================================================
